---- MODULE Spec2Model ----
(***************************************************************************)
(* Model of the payment gateway: the luhn card validator, the transaction  *)
(* aggregate of internal/domain, the SQL store (tables transaction and     *)
(* payment_action of migrations/0_schema.up.sql, statements of the Store   *)
(* methods) and the four operations of internal/service.                   *)
(*                                                                         *)
(* Under Spec the operations run one at a time: every action is one whole  *)
(* service call, from its first store call to its return.  Under SpecConc  *)
(* calls of Void, Capture and Refund are in flight together and every      *)
(* action is one store call of one of them.  SpecLuhn and SpecValidate     *)
(* apply luhn.Validate and the validators of the aggregate to inputs drawn *)
(* by their initial states; under SpecHTTP every action is one request     *)
(* served by a handler of internal/transport/transporthttp.  Under         *)
(* SpecFault the operations run one at a time over a store whose calls can *)
(* fail with an error of the driver, and under SpecMany over a store that  *)
(* holds up to two transactions.                                           *)
(* SpecHealth and SpecRun follow the goroutines of healthcheck.CheckAll    *)
(* and of app.Service.run step by step; SpecHealthFair and SpecRunFair add *)
(* that a goroutine able to take a step is run.                            *)
(*                                                                         *)
(* Rows of a table are kept in insertion order.  The service stamps every  *)
(* row with the clock's current time and GetTransaction orders by that     *)
(* created_date, so with calls that run one after the other the insertion  *)
(* order is the order GetTransaction returns.                              *)
(***************************************************************************)
EXTENDS Integers, Sequences, FiniteSets, TLC

(***************************************************************************)
(* Bounds of the model.                                                    *)
(***************************************************************************)
\* width of the unsigned integer that stands for Go's uint64
WordBits == 4
\* the client-chosen request identifiers are 1..MaxRequestID
MaxRequestID == 3
\* at most MaxTransactions rows are inserted into table transaction
MaxTransactions == 1
\* number of service calls that can be in flight at the same time
MaxProcs == 2

\* Amount.MinorUnits is a uint64: arithmetic on it is modulo Uint64Mod
Uint64Mod == 2 ^ WordBits
\* columns amount are BIGINT, a signed integer of the same width
BigintMax == 2 ^ (WordBits - 1) - 1

(***************************************************************************)
(* Identifiers the operations are called with.                             *)
(***************************************************************************)
RequestIDs == 1 .. MaxRequestID
\* every authorization_id the store can hold, and one it never holds
AuthorizationIDs == 1 .. (MaxTransactions + 1)

\* a nil pointer and a pointer to v
Nil == << >>
Ptr(v) == << v >>

PaymentActionTypeAuthorization == "authorization"
PaymentActionTypeVoid == "void"
PaymentActionTypeCapture == "capture"
PaymentActionTypeRefund == "refund"
PaymentActionStatusSuccess == "success"
PaymentActionStatusFailed == "failed"

\* the errors a service call returns (ErrNone: it returned a transaction)
ErrNone == "none"
ErrTransactionNotFound == "transaction not found"
ErrUnprocessable == "unprocessable"
\* any other error: a failure of the store
ErrStore == "store failure"

(***************************************************************************)
(* Card numbers: strings, as sequences of characters.                      *)
(***************************************************************************)
authorisationFailurePAN ==
  << "4","0","0","0"," ","0","0","0","0"," ","0","0","0","0"," ","0","1","1","9" >>
captureFailurePAN ==
  << "4","0","0","0"," ","0","0","0","0"," ","0","0","0","0"," ","0","2","5","9" >>
refundFailurePAN ==
  << "4","0","0","0"," ","0","0","0","0"," ","0","0","0","0"," ","3","2","3","8" >>
\* a card number that passes the checksum and one that fails it
somePAN == << "4","9","9","2","7","3","9","8","7","1","6" >>
badPAN == << "4","9","9","2","7","3","9","8","7","1","7" >>

\* strings.ReplaceAll(s, " ", "")
RECURSIVE StripSpaces(_)
StripSpaces(s) ==
  IF s = << >> THEN << >>
  ELSE IF Head(s) = " " THEN StripSpaces(Tail(s))
       ELSE << Head(s) >> \o StripSpaces(Tail(s))

DigitChars == {"0","1","2","3","4","5","6","7","8","9"}
DigitVal(c) ==
  CASE c = "0" -> 0 [] c = "1" -> 1 [] c = "2" -> 2 [] c = "3" -> 3 [] c = "4" -> 4
    [] c = "5" -> 5 [] c = "6" -> 6 [] c = "7" -> 7 [] c = "8" -> 8 [] c = "9" -> 9

\* the decimal digits of 1<<63 - 1, the largest int
MaxIntDigits == << 9,2,2,3,3,7,2,0,3,6,8,5,4,7,7,5,8,0,7 >>

RECURSIVE StripZeros(_)
StripZeros(d) ==
  IF d = << >> THEN << >>
  ELSE IF Head(d) = 0 THEN StripZeros(Tail(d)) ELSE d

\* d <= e for two digit sequences of the same length
RECURSIVE DigitsLeq(_, _)
DigitsLeq(d, e) ==
  IF d = << >> THEN TRUE
  ELSE IF Head(d) < Head(e) THEN TRUE
  ELSE IF Head(d) > Head(e) THEN FALSE
  ELSE DigitsLeq(Tail(d), Tail(e))

\* strconv.Atoi: an optional sign, then one or more decimal digits, the value
\* in the range of int.  The value is returned as its sign and its digits
\* without leading zeros.
Atoi(s) ==
  LET signed == s # << >> /\ Head(s) \in {"+", "-"}
      body == IF signed THEN Tail(s) ELSE s
      syntaxOK == body # << >> /\ \A i \in DOMAIN body : body[i] \in DigitChars
      digits == IF syntaxOK
                THEN StripZeros([i \in DOMAIN body |-> DigitVal(body[i])])
                ELSE << >>
      neg == signed /\ Head(s) = "-"
      \* -1<<63 is in range as well: its digits are MaxIntDigits with last digit 8
      limit == IF neg THEN [MaxIntDigits EXCEPT ![19] = 8] ELSE MaxIntDigits
      inRange == \/ Len(digits) < 19
                 \/ Len(digits) = 19 /\ DigitsLeq(digits, limit)
  IN [ok |-> syntaxOK /\ inRange, neg |-> neg, digits |-> digits]

\* the loop of luhn.Validate: cur is the i-th digit from the right
RECURSIVE LuhnSum(_, _)
LuhnSum(digits, i) ==
  IF digits = << >> THEN 0
  ELSE LET cur == digits[Len(digits)]
           dbl == cur * 2
           add == IF i % 2 = 0
                  THEN (IF dbl > 9 THEN (dbl % 10) + (dbl \div 10) ELSE dbl)
                  ELSE cur
       IN add + LuhnSum(SubSeq(digits, 1, Len(digits) - 1), i + 1)

LuhnOK == "ok"
LuhnNonNumeric == "pan contains non numeric or spaces"
LuhnFailed == "luhn validation failed"

\* luhn.Validate
Validate(pan) ==
  LET n == Atoi(pan)
      \* the loop runs while panNum > 0: not at all for a negative number
      luhn == IF n.neg THEN 0 ELSE LuhnSum(n.digits, 1)
  IN IF ~n.ok THEN LuhnNonNumeric
     ELSE IF luhn % 10 # 0 THEN LuhnFailed
     ELSE LuhnOK

(***************************************************************************)
(* internal/domain: payment actions and the transaction aggregate.         *)
(***************************************************************************)
Amount(minorUnits, currency, exponent) ==
  [MinorUnits |-> minorUnits, Currency |-> currency, Exponent |-> exponent]

AuthorizationSuccess(p) ==
  p.Type = PaymentActionTypeAuthorization /\ p.Status = PaymentActionStatusSuccess
VoidSuccess(p) ==
  p.Type = PaymentActionTypeVoid /\ p.Status = PaymentActionStatusSuccess
\* CaptureSuccess without its test of the status
CaptureSuccessAnyStatus(p) ==
  p.Type = PaymentActionTypeCapture
CaptureSuccess(p) ==
  p.Type = PaymentActionTypeCapture /\ p.Status = PaymentActionStatusSuccess
RefundSuccess(p) ==
  p.Type = PaymentActionTypeRefund /\ p.Status = PaymentActionStatusSuccess

\* Transaction.AuthorizationDate: Nil, or a pointer to the ProcessedDate of the
\* first successful authorization action; the position of the action in the
\* log stands for its date
AuthorizationDate(t) ==
  LET hits == {i \in DOMAIN t.PaymentActionSummary :
                 AuthorizationSuccess(t.PaymentActionSummary[i])}
  IN IF hits = {} THEN Nil
     ELSE Ptr(CHOOSE i \in hits : \A j \in hits : i <= j)

\* IsRequestIDIdempotent that counts only the actions with status success
IsRequestIDIdempotentSuccessOnly(t, pat, requestID) ==
  \E i \in DOMAIN t.PaymentActionSummary :
    /\ t.PaymentActionSummary[i].Type = pat
    /\ t.PaymentActionSummary[i].RequestID = requestID
    /\ t.PaymentActionSummary[i].Status = PaymentActionStatusSuccess

\* t is a domain.Transaction
IsRequestIDIdempotent(t, pat, requestID) ==
  \E i \in DOMAIN t.PaymentActionSummary :
    /\ t.PaymentActionSummary[i].Type = pat
    /\ t.PaymentActionSummary[i].RequestID = requestID

Voided(t) ==
  \E i \in DOMAIN t.PaymentActionSummary : VoidSuccess(t.PaymentActionSummary[i])
Refunded(t) ==
  \E i \in DOMAIN t.PaymentActionSummary : RefundSuccess(t.PaymentActionSummary[i])
Captured(t) ==
  \E i \in DOMAIN t.PaymentActionSummary : CaptureSuccess(t.PaymentActionSummary[i])

\* the value of the accumulator "authorized" after the loop of Amounts over log
RECURSIVE AuthorizedOf(_)
AuthorizedOf(log) ==
  IF log = << >> THEN 0
  ELSE LET pa == log[Len(log)]
       IN IF AuthorizationSuccess(pa) THEN pa.Amount[1].MinorUnits
          ELSE AuthorizedOf(SubSeq(log, 1, Len(log) - 1))

\* the value of "captured" after the loop of Amounts over log (uint64 addition)
RECURSIVE CapturedOf(_)
CapturedOf(log) ==
  IF log = << >> THEN 0
  ELSE LET pa == log[Len(log)]
           rest == CapturedOf(SubSeq(log, 1, Len(log) - 1))
       IN IF CaptureSuccess(pa) THEN (rest + pa.Amount[1].MinorUnits) % Uint64Mod
          ELSE rest

\* the value of "refunded" after the loop of Amounts over log (uint64 addition)
RECURSIVE RefundedOf(_)
RefundedOf(log) ==
  IF log = << >> THEN 0
  ELSE LET pa == log[Len(log)]
           rest == RefundedOf(SubSeq(log, 1, Len(log) - 1))
       IN IF RefundSuccess(pa) THEN (rest + pa.Amount[1].MinorUnits) % Uint64Mod
          ELSE rest

\* Transaction.Amounts: t with its three derived amounts set from its log
Amounts(t) ==
  LET currency == t.Amount.Currency
      exponent == t.Amount.Exponent
  IN [t EXCEPT
        !.AuthorizedAmount = Amount(AuthorizedOf(t.PaymentActionSummary), currency, exponent),
        !.CapturedAmount = Amount(CapturedOf(t.PaymentActionSummary), currency, exponent),
        !.RefundedAmount = Amount(RefundedOf(t.PaymentActionSummary), currency, exponent)]

\* ValidateCapture without its check of the currency
ValidateCaptureNoCurrency(t, a) ==
  IF \E i \in DOMAIN t.PaymentActionSummary : VoidSuccess(t.PaymentActionSummary[i])
  THEN "transaction is already voided"
  ELSE IF \E i \in DOMAIN t.PaymentActionSummary : RefundSuccess(t.PaymentActionSummary[i])
  THEN "transaction is already refunded"
  ELSE IF (t.CapturedAmount.MinorUnits + a.MinorUnits) % Uint64Mod
            > t.AuthorizedAmount.MinorUnits
       THEN "amount to be captured > authorized amount"
  ELSE ""

\* ValidateCapture without its check against the authorized amount
ValidateCaptureNoCeiling(t, a) ==
  IF \E i \in DOMAIN t.PaymentActionSummary : VoidSuccess(t.PaymentActionSummary[i])
  THEN "transaction is already voided"
  ELSE IF \E i \in DOMAIN t.PaymentActionSummary : RefundSuccess(t.PaymentActionSummary[i])
  THEN "transaction is already refunded"
  ELSE IF t.Amount.Currency # a.Currency THEN "currency is different"
  ELSE ""

\* ValidateCapture without its check of Refunded
ValidateCaptureNoRefunded(t, a) ==
  IF \E i \in DOMAIN t.PaymentActionSummary : VoidSuccess(t.PaymentActionSummary[i])
  THEN "transaction is already voided"
  ELSE IF t.Amount.Currency # a.Currency THEN "currency is different"
  ELSE IF (t.CapturedAmount.MinorUnits + a.MinorUnits) % Uint64Mod
            > t.AuthorizedAmount.MinorUnits
       THEN "amount to be captured > authorized amount"
  ELSE ""

\* ValidateRefund without its check of Voided
ValidateRefundNoVoided(t, a) ==
  IF t.Amount.Currency # a.Currency THEN "currency is different"
  ELSE IF (t.RefundedAmount.MinorUnits + a.MinorUnits) % Uint64Mod
            > t.CapturedAmount.MinorUnits
       THEN "amount to be refunded > captured amount"
  ELSE ""

\* ValidateVoid without its check of Voided
ValidateVoidNoVoided(t) ==
  IF \E i \in DOMAIN t.PaymentActionSummary : CaptureSuccess(t.PaymentActionSummary[i])
  THEN "transaction is already captured"
  ELSE ""

\* ValidateVoid without its check of Captured
ValidateVoidNoCaptured(t) ==
  IF \E i \in DOMAIN t.PaymentActionSummary : VoidSuccess(t.PaymentActionSummary[i])
  THEN "transaction is already voided"
  ELSE ""

\* the validators return "" for a nil error, else the text of the error
ValidateCapture(t, a) ==
  IF Voided(t) THEN "transaction is already voided"
  ELSE IF Refunded(t) THEN "transaction is already refunded"
  ELSE IF t.Amount.Currency # a.Currency THEN "currency is different"
  ELSE IF (t.CapturedAmount.MinorUnits + a.MinorUnits) % Uint64Mod
            > t.AuthorizedAmount.MinorUnits
       THEN "amount to be captured > authorized amount"
  ELSE ""

ValidateRefund(t, a) ==
  IF Voided(t) THEN "transaction is already voided"
  ELSE IF t.Amount.Currency # a.Currency THEN "currency is different"
  ELSE IF (t.RefundedAmount.MinorUnits + a.MinorUnits) % Uint64Mod
            > t.CapturedAmount.MinorUnits
       THEN "amount to be refunded > captured amount"
  ELSE ""

ValidateVoid(t) ==
  IF Voided(t) THEN "transaction is already voided"
  ELSE IF Captured(t) THEN "transaction is already captured"
  ELSE ""

(***************************************************************************)
(* The store: tables transaction and payment_action.  A card is keyed by   *)
(* its unique pan and never changes, so a transaction row holds the pan of *)
(* its card in place of card_id.                                           *)
(***************************************************************************)
VARIABLES
  transaction,    \* rows [id, card_pan, request_id, authorization_id, amount, currency]
  payment_action, \* rows [transaction_id, type, status, amount, currency, request_id]
  last,           \* the service call that returned last, and how it returned
  voidSucceeded,  \* the authorizationIDs on which a Void call returned without error
  calls,          \* SpecConc: where each call in flight stands between its store calls
  asked,          \* asked[i]: the amount of the Authorize request that created the
                  \* transaction of id i
  result          \* SpecLuhn, SpecValidate, SpecHTTP: what the function or the HTTP
                  \* handler applied last was given and what it gave back

vars == << transaction, payment_action, last, voidSucceeded, calls, asked, result >>

\* the insert without a conflict on request_id: the row is always added
InsertPaymentActionNoConflict(pa, row) == Append(pa, row)

\* the insert that on a conflict on request_id replaces the columns of the
\* existing row by those of the new one (do update set every column)
InsertPaymentActionOverwrite(pa, row) ==
  IF \E i \in DOMAIN pa : pa[i].request_id = row.request_id
  THEN [i \in DOMAIN pa |-> IF pa[i].request_id = row.request_id THEN row ELSE pa[i]]
  ELSE Append(pa, row)

\* insert into payment_action ... on conflict (request_id) do update set
\* request_id = excluded.request_id: column request_id is UNIQUE, a row whose
\* request_id is in the table already is not inserted and no error is raised
InsertPaymentAction(pa, row) ==
  IF \E i \in DOMAIN pa : pa[i].request_id = row.request_id
  THEN pa
  ELSE Append(pa, row)

\* a uint64 bound to a BIGINT column: a value above the largest BIGINT makes
\* the statement fail
BigintOK(minorUnits) == minorUnits <= BigintMax

\* Store.CreateTransaction on tables tt and pa; all statements run in one SQL
\* transaction, so an error leaves the tables as they were
CreateTransaction(tt, pa, authorization) ==
  LET pan == StripSpaces(authorization.PaymentSource.PAN)
      amt == authorization.Amount
      \* card.pan is VARCHAR(19)
      cardOK == Len(pan) <= 19
      \* on conflict (request_id) the existing row's id and authorization_id return
      existing == {i \in DOMAIN tt : tt[i].request_id = authorization.RequestID}
      fresh == Len(tt) + 1
      trow == IF existing # {}
              THEN tt[CHOOSE i \in existing : TRUE]
              ELSE [id |-> fresh, card_pan |-> pan,
                    request_id |-> authorization.RequestID,
                    authorization_id |-> fresh,
                    amount |-> amt.MinorUnits, currency |-> amt.Currency]
      tt2 == IF existing # {} THEN tt ELSE Append(tt, trow)
      status == IF pan = StripSpaces(authorisationFailurePAN)
                THEN PaymentActionStatusFailed
                ELSE PaymentActionStatusSuccess
      pa2 == InsertPaymentAction(pa,
               [transaction_id |-> trow.id, type |-> PaymentActionTypeAuthorization,
                status |-> status, amount |-> Ptr(amt.MinorUnits),
                currency |-> Ptr(amt.Currency), request_id |-> authorization.RequestID])
      paymentAction == [Type |-> PaymentActionTypeAuthorization, Status |-> status,
                        Amount |-> Ptr(amt), RequestID |-> authorization.RequestID]
      t == Amounts([ID |-> trow.id, RequestID |-> authorization.RequestID,
                    AuthorizationID |-> trow.authorization_id, Amount |-> amt,
                    AuthorizedAmount |-> Amount(0, "", 0),
                    CapturedAmount |-> Amount(0, "", 0),
                    RefundedAmount |-> Amount(0, "", 0),
                    PaymentActionSummary |-> << paymentAction >>])
  IN IF cardOK /\ BigintOK(amt.MinorUnits)
     THEN [err |-> ErrNone, t |-> Ptr(t), transaction |-> tt2, payment_action |-> pa2]
     ELSE [err |-> ErrStore, t |-> Nil, transaction |-> tt, payment_action |-> pa]

\* panFailureMap
panFailureMap(paymentActionType) ==
  CASE paymentActionType = PaymentActionTypeCapture -> Ptr(captureFailurePAN)
    [] paymentActionType = PaymentActionTypeRefund -> Ptr(refundFailurePAN)
    [] OTHER -> Nil

\* Store.CreatePaymentAction on tables tt and pa; amount is Nil or Ptr(an Amount)
CreatePaymentAction(tt, pa, transactionID, requestID, paymentActionType, amount) ==
  LET owners == {i \in DOMAIN tt : tt[i].id = transactionID}
      transactionPAN == tt[CHOOSE i \in owners : TRUE].card_pan
      minorUnits == IF amount # Nil THEN Ptr(amount[1].MinorUnits) ELSE Nil
      currency == IF amount # Nil THEN Ptr(amount[1].Currency) ELSE Nil
      failPAN == panFailureMap(paymentActionType)
      paymentActionStatus ==
        IF failPAN # Nil /\ StripSpaces(failPAN[1]) = transactionPAN
        THEN PaymentActionStatusFailed
        ELSE PaymentActionStatusSuccess
      row == [transaction_id |-> transactionID, type |-> paymentActionType,
              status |-> paymentActionStatus, amount |-> minorUnits,
              currency |-> currency, request_id |-> requestID]
  IN IF owners = {} \/ (amount # Nil /\ ~BigintOK(amount[1].MinorUnits))
     THEN [err |-> ErrStore, payment_action |-> pa]
     ELSE [err |-> ErrNone, payment_action |-> InsertPaymentAction(pa, row)]

\* GetTransaction without its test for zero rows: with no row it returns the
\* zero Transaction and no error
GetTransactionNoNotFound(tt, pa, authorizationID) ==
  LET ids == {tt[i].id : i \in {j \in DOMAIN tt : tt[j].authorization_id = authorizationID}}
      InJoin(p) == p.transaction_id \in ids
      rows == SelectSeq(pa, InJoin)
      paymentActionSummary ==
        [i \in 1 .. Len(rows) |->
           [Type |-> rows[i].type, Status |-> rows[i].status,
            Amount |-> IF rows[i].amount # Nil
                       THEN Ptr(Amount(rows[i].amount[1], rows[i].currency[1], 2))
                       ELSE Nil,
            RequestID |-> rows[i].request_id]]
      trow == IF Len(rows) = 0
              THEN [id |-> 0, request_id |-> 0, amount |-> 0, currency |-> ""]
              ELSE tt[CHOOSE i \in DOMAIN tt : tt[i].id = rows[Len(rows)].transaction_id]
      t == Amounts([ID |-> trow.id, RequestID |-> trow.request_id,
                    AuthorizationID |-> IF Len(rows) = 0 THEN 0 ELSE authorizationID,
                    Amount |-> Amount(trow.amount, trow.currency,
                                      IF Len(rows) = 0 THEN 0 ELSE 2),
                    AuthorizedAmount |-> Amount(0, "", 0),
                    CapturedAmount |-> Amount(0, "", 0),
                    RefundedAmount |-> Amount(0, "", 0),
                    PaymentActionSummary |-> paymentActionSummary])
  IN [err |-> ErrNone, t |-> Ptr(t)]

\* Store.GetTransaction on tables tt and pa
GetTransaction(tt, pa, authorizationID) ==
  LET ids == {tt[i].id : i \in {j \in DOMAIN tt : tt[j].authorization_id = authorizationID}}
      InJoin(p) == p.transaction_id \in ids
      rows == SelectSeq(pa, InJoin)
      paymentActionSummary ==
        [i \in 1 .. Len(rows) |->
           [Type |-> rows[i].type, Status |-> rows[i].status,
            Amount |-> IF rows[i].amount # Nil
                       THEN Ptr(Amount(rows[i].amount[1], rows[i].currency[1], 2))
                       ELSE Nil,
            RequestID |-> rows[i].request_id]]
      \* the transaction columns are those of the last row scanned
      trow == tt[CHOOSE i \in DOMAIN tt : tt[i].id = rows[Len(rows)].transaction_id]
      t == Amounts([ID |-> trow.id, RequestID |-> trow.request_id,
                    AuthorizationID |-> authorizationID,
                    Amount |-> Amount(trow.amount, trow.currency, 2),
                    AuthorizedAmount |-> Amount(0, "", 0),
                    CapturedAmount |-> Amount(0, "", 0),
                    RefundedAmount |-> Amount(0, "", 0),
                    PaymentActionSummary |-> paymentActionSummary])
  IN IF Len(rows) = 0
     THEN [err |-> ErrTransactionNotFound, t |-> Nil]
     ELSE [err |-> ErrNone, t |-> Ptr(t)]

(***************************************************************************)
(* internal/service: the four operations.  Each operator is one whole call *)
(* on tables tt and pa: it gives the error and the transaction returned    *)
(* (err, t), the tables after the call, the transaction the call loaded    *)
(* first (loaded) and whether it took the idempotent no-op return.         *)
(***************************************************************************)
\* Authorize with CreateTransaction called before the card is validated
AuthorizeCreateFirst(tt, pa, authorization) ==
  LET created == CreateTransaction(tt, pa, authorization)
  IN IF Validate(authorization.PaymentSource.PAN) # LuhnOK
     THEN [err |-> ErrUnprocessable, t |-> Nil, loaded |-> Nil, idempotent |-> FALSE,
           transaction |-> created.transaction,
           payment_action |-> created.payment_action]
     ELSE [err |-> created.err, t |-> created.t, loaded |-> Nil, idempotent |-> FALSE,
           transaction |-> created.transaction,
           payment_action |-> created.payment_action]

\* Authorize without the validation of the card
AuthorizeNoValidate(tt, pa, authorization) ==
  LET created == CreateTransaction(tt, pa, authorization)
  IN [err |-> created.err, t |-> created.t, loaded |-> Nil, idempotent |-> FALSE,
      transaction |-> created.transaction,
      payment_action |-> created.payment_action]

\* Service.Authorize
Authorize(tt, pa, authorization) ==
  LET created == CreateTransaction(tt, pa, authorization)
  IN IF Validate(authorization.PaymentSource.PAN) # LuhnOK
     THEN [err |-> ErrUnprocessable, t |-> Nil, loaded |-> Nil, idempotent |-> FALSE,
           transaction |-> tt, payment_action |-> pa]
     ELSE [err |-> created.err, t |-> created.t, loaded |-> Nil, idempotent |-> FALSE,
           transaction |-> created.transaction,
           payment_action |-> created.payment_action]

\* Service.Void
Void(tt, pa, void) ==
  LET got == GetTransaction(tt, pa, void.AuthorizationID)
      t == got.t[1]
      created == CreatePaymentAction(tt, pa, t.ID, void.RequestID,
                                     PaymentActionTypeVoid, Nil)
      reloaded == GetTransaction(tt, created.payment_action, void.AuthorizationID)
  IN IF got.err # ErrNone
     THEN [err |-> got.err, t |-> Nil, loaded |-> Nil, idempotent |-> FALSE,
           transaction |-> tt, payment_action |-> pa]
     ELSE IF IsRequestIDIdempotent(t, PaymentActionTypeVoid, void.RequestID)
     THEN [err |-> ErrNone, t |-> got.t, loaded |-> got.t, idempotent |-> TRUE,
           transaction |-> tt, payment_action |-> pa]
     ELSE IF ValidateVoid(t) # ""
     THEN [err |-> ErrUnprocessable, t |-> Nil, loaded |-> got.t, idempotent |-> FALSE,
           transaction |-> tt, payment_action |-> pa]
     ELSE IF created.err # ErrNone
     THEN [err |-> created.err, t |-> Nil, loaded |-> got.t, idempotent |-> FALSE,
           transaction |-> tt, payment_action |-> pa]
     ELSE [err |-> reloaded.err, t |-> reloaded.t, loaded |-> got.t, idempotent |-> FALSE,
           transaction |-> tt, payment_action |-> created.payment_action]

\* Capture that returns the transaction it validated instead of reading it
\* again after the insert
CaptureReturnsLoaded(tt, pa, capture) ==
  LET got == GetTransaction(tt, pa, capture.AuthorizationID)
      t == got.t[1]
      created == CreatePaymentAction(tt, pa, t.ID, capture.RequestID,
                                     PaymentActionTypeCapture, Ptr(capture.Amount))
  IN IF got.err # ErrNone
     THEN [err |-> got.err, t |-> Nil, loaded |-> Nil, idempotent |-> FALSE,
           transaction |-> tt, payment_action |-> pa]
     ELSE IF IsRequestIDIdempotent(t, PaymentActionTypeCapture, capture.RequestID)
     THEN [err |-> ErrNone, t |-> got.t, loaded |-> got.t, idempotent |-> TRUE,
           transaction |-> tt, payment_action |-> pa]
     ELSE IF ValidateCapture(t, capture.Amount) # ""
     THEN [err |-> ErrUnprocessable, t |-> Nil, loaded |-> got.t, idempotent |-> FALSE,
           transaction |-> tt, payment_action |-> pa]
     ELSE IF created.err # ErrNone
     THEN [err |-> created.err, t |-> Nil, loaded |-> got.t, idempotent |-> FALSE,
           transaction |-> tt, payment_action |-> pa]
     ELSE [err |-> ErrNone, t |-> got.t, loaded |-> got.t, idempotent |-> FALSE,
           transaction |-> tt, payment_action |-> created.payment_action]

\* Service.Capture
Capture(tt, pa, capture) ==
  LET got == GetTransaction(tt, pa, capture.AuthorizationID)
      t == got.t[1]
      created == CreatePaymentAction(tt, pa, t.ID, capture.RequestID,
                                     PaymentActionTypeCapture, Ptr(capture.Amount))
      reloaded == GetTransaction(tt, created.payment_action, capture.AuthorizationID)
  IN IF got.err # ErrNone
     THEN [err |-> got.err, t |-> Nil, loaded |-> Nil, idempotent |-> FALSE,
           transaction |-> tt, payment_action |-> pa]
     ELSE IF IsRequestIDIdempotent(t, PaymentActionTypeCapture, capture.RequestID)
     THEN [err |-> ErrNone, t |-> got.t, loaded |-> got.t, idempotent |-> TRUE,
           transaction |-> tt, payment_action |-> pa]
     ELSE IF ValidateCapture(t, capture.Amount) # ""
     THEN [err |-> ErrUnprocessable, t |-> Nil, loaded |-> got.t, idempotent |-> FALSE,
           transaction |-> tt, payment_action |-> pa]
     ELSE IF created.err # ErrNone
     THEN [err |-> created.err, t |-> Nil, loaded |-> got.t, idempotent |-> FALSE,
           transaction |-> tt, payment_action |-> pa]
     ELSE [err |-> reloaded.err, t |-> reloaded.t, loaded |-> got.t, idempotent |-> FALSE,
           transaction |-> tt, payment_action |-> created.payment_action]

\* Service.Refund
Refund(tt, pa, refund) ==
  LET got == GetTransaction(tt, pa, refund.AuthorizationID)
      t == got.t[1]
      created == CreatePaymentAction(tt, pa, t.ID, refund.RequestID,
                                     PaymentActionTypeRefund, Ptr(refund.Amount))
      reloaded == GetTransaction(tt, created.payment_action, refund.AuthorizationID)
  IN IF got.err # ErrNone
     THEN [err |-> got.err, t |-> Nil, loaded |-> Nil, idempotent |-> FALSE,
           transaction |-> tt, payment_action |-> pa]
     ELSE IF IsRequestIDIdempotent(t, PaymentActionTypeRefund, refund.RequestID)
     THEN [err |-> ErrNone, t |-> got.t, loaded |-> got.t, idempotent |-> TRUE,
           transaction |-> tt, payment_action |-> pa]
     ELSE IF ValidateRefund(t, refund.Amount) # ""
     THEN [err |-> ErrUnprocessable, t |-> Nil, loaded |-> got.t, idempotent |-> FALSE,
           transaction |-> tt, payment_action |-> pa]
     ELSE IF created.err # ErrNone
     THEN [err |-> created.err, t |-> Nil, loaded |-> got.t, idempotent |-> FALSE,
           transaction |-> tt, payment_action |-> pa]
     ELSE [err |-> reloaded.err, t |-> reloaded.t, loaded |-> got.t, idempotent |-> FALSE,
           transaction |-> tt, payment_action |-> created.payment_action]

(***************************************************************************)
(* The requests the operations are called with.                            *)
(***************************************************************************)
\* the largest uint64
MaxUint64 == Uint64Mod - 1

\* card and amount of an Authorize request
AuthorizeInputs ==
  { [PAN |-> somePAN, Amount |-> Amount(2, "GBP", 2)],
    [PAN |-> somePAN, Amount |-> Amount(1, "USD", 3)],
    [PAN |-> somePAN, Amount |-> Amount(MaxUint64, "GBP", 2)],
    [PAN |-> StripSpaces(authorisationFailurePAN), Amount |-> Amount(2, "GBP", 2)],
    [PAN |-> StripSpaces(captureFailurePAN), Amount |-> Amount(2, "GBP", 2)],
    [PAN |-> StripSpaces(refundFailurePAN), Amount |-> Amount(2, "GBP", 2)],
    [PAN |-> badPAN, Amount |-> Amount(2, "GBP", 2)] }

\* amount of a Capture or Refund request (its exponent is never read)
AmountInputs ==
  { Amount(0, "GBP", 2), Amount(1, "GBP", 2), Amount(2, "GBP", 2),
    Amount(MaxUint64, "GBP", 2), Amount(1, "USD", 2) }

Authorizations ==
  { [RequestID |-> r, PaymentSource |-> [PAN |-> a.PAN], Amount |-> a.Amount] :
      r \in RequestIDs, a \in AuthorizeInputs }
Voids ==
  { [RequestID |-> r, AuthorizationID |-> a] : r \in RequestIDs, a \in AuthorizationIDs }
Captures ==
  { [RequestID |-> r, AuthorizationID |-> a, Amount |-> m] :
      r \in RequestIDs, a \in AuthorizationIDs, m \in AmountInputs }
Refunds == Captures

(***************************************************************************)
(* The state machine: one action per operation, calls run one at a time.   *)
(***************************************************************************)
OpNone == "none"
OpAuthorize == "Authorize"
OpVoid == "Void"
OpCapture == "Capture"
OpRefund == "Refund"

\* the goroutines that serve requests
Procs == 1 .. MaxProcs

\* a goroutine that serves no request
Idle == [pc |-> "idle", op |-> OpNone, req |-> Nil, loaded |-> Nil]

\* nothing applied yet
NoResult == [fn |-> "none"]

\* the record of a call op on authorizationID that returned r
Returned(op, authorizationID, r) ==
  [op |-> op, AuthorizationID |-> authorizationID, err |-> r.err,
   idempotent |-> r.idempotent, inserted |-> r.payment_action # payment_action]

DoAuthorize ==
  \E authorization \in Authorizations :
    LET r == Authorize(transaction, payment_action, authorization)
    IN /\ Len(r.transaction) <= MaxTransactions
       /\ transaction' = r.transaction
       /\ payment_action' = r.payment_action
       /\ last' = Returned(OpAuthorize,
                           IF r.err = ErrNone THEN r.t[1].AuthorizationID ELSE 0, r)
       /\ asked' = IF Len(r.transaction) > Len(transaction)
                   THEN Append(asked, authorization.Amount)
                   ELSE asked
       /\ UNCHANGED << voidSucceeded, calls, result >>

DoVoid ==
  \E void \in Voids :
    LET r == Void(transaction, payment_action, void)
    IN /\ transaction' = r.transaction
       /\ payment_action' = r.payment_action
       /\ last' = Returned(OpVoid, void.AuthorizationID, r)
       /\ voidSucceeded' = IF r.err = ErrNone
                           THEN voidSucceeded \cup {void.AuthorizationID}
                           ELSE voidSucceeded
       /\ UNCHANGED << calls, asked, result >>

DoCapture ==
  \E capture \in Captures :
    LET r == Capture(transaction, payment_action, capture)
    IN /\ transaction' = r.transaction
       /\ payment_action' = r.payment_action
       /\ last' = Returned(OpCapture, capture.AuthorizationID, r)
       /\ UNCHANGED << voidSucceeded, calls, asked, result >>

DoRefund ==
  \E refund \in Refunds :
    LET r == Refund(transaction, payment_action, refund)
    IN /\ transaction' = r.transaction
       /\ payment_action' = r.payment_action
       /\ last' = Returned(OpRefund, refund.AuthorizationID, r)
       /\ UNCHANGED << voidSucceeded, calls, asked, result >>

\* the state after construction: empty tables, no call made yet
Init ==
  /\ transaction = << >>
  /\ payment_action = << >>
  /\ last = [op |-> OpNone, AuthorizationID |-> 0, err |-> ErrNone,
             idempotent |-> FALSE, inserted |-> FALSE]
  /\ voidSucceeded = {}
  /\ calls = [p \in Procs |-> Idle]
  /\ asked = << >>
  /\ result = NoResult

Next == DoAuthorize \/ DoVoid \/ DoCapture \/ DoRefund

Spec == Init /\ [][Next]_vars

(***************************************************************************)
(* Calls in flight together.  Service.Void, Capture and Refund make three  *)
(* store calls: GetTransaction, CreatePaymentAction, GetTransaction.  Each *)
(* store call is one SQL statement or one SQL transaction, nothing is held *)
(* between them, so the store calls of the goroutines interleave freely.   *)
(* The totals and the lifecycle flags do not depend on the order of the    *)
(* rows with equal type, so the insertion order stands for created_date.   *)
(***************************************************************************)
\* the amounts of the calls in flight
ConcAmountInputs == { Amount(1, "GBP", 2), Amount(2, "GBP", 2) }

\* the requests of the calls in flight: Amount is Nil for a Void
ConcCalls ==
  { [op |-> OpVoid, RequestID |-> v.RequestID,
     AuthorizationID |-> v.AuthorizationID, Amount |-> Nil] : v \in Voids }
  \cup
  { [op |-> o, RequestID |-> c.RequestID,
     AuthorizationID |-> c.AuthorizationID, Amount |-> Ptr(c.Amount)] :
      o \in {OpCapture, OpRefund},
      c \in {d \in Captures : d.Amount \in ConcAmountInputs} }

\* the type of the payment action an operation appends
TypeOf(op) ==
  CASE op = OpVoid -> PaymentActionTypeVoid
    [] op = OpCapture -> PaymentActionTypeCapture
    [] op = OpRefund -> PaymentActionTypeRefund

\* the validation an operation runs on the transaction it loaded
ValidateCall(t, q) ==
  CASE q.op = OpVoid -> ValidateVoid(t)
    [] q.op = OpCapture -> ValidateCapture(t, q.Amount[1])
    [] q.op = OpRefund -> ValidateRefund(t, q.Amount[1])

\* a call starts: GetTransaction, then the replay test and the validation on
\* what it returned; the call returns here unless it goes on to append
LoadStep ==
  \E p \in Procs, q \in ConcCalls :
    LET got == GetTransaction(transaction, payment_action, q.AuthorizationID)
        t == got.t[1]
    IN /\ calls[p].pc = "idle"
       /\ calls' = [calls EXCEPT ![p] =
            IF got.err # ErrNone THEN Idle
            ELSE IF IsRequestIDIdempotent(t, TypeOf(q.op), q.RequestID) THEN Idle
            ELSE IF ValidateCall(t, q) # "" THEN Idle
            ELSE [pc |-> "validated", op |-> q.op, req |-> Ptr(q), loaded |-> got.t]]
       /\ UNCHANGED << transaction, payment_action, last, voidSucceeded, asked, result >>

\* the call's CreatePaymentAction, with the ID of the transaction it loaded
AppendStep ==
  \E p \in Procs :
    /\ calls[p].pc = "validated"
    /\ LET q == calls[p].req[1]
           created == CreatePaymentAction(transaction, payment_action,
                                          calls[p].loaded[1].ID, q.RequestID,
                                          TypeOf(q.op), q.Amount)
       IN /\ payment_action' = created.payment_action
          /\ calls' = [calls EXCEPT ![p] =
               IF created.err # ErrNone THEN Idle
               ELSE [calls[p] EXCEPT !.pc = "appended"]]
    /\ UNCHANGED << transaction, last, voidSucceeded, asked, result >>

\* the call's second GetTransaction, whose result it returns
ReloadStep ==
  \E p \in Procs :
    /\ calls[p].pc = "appended"
    /\ calls' = [calls EXCEPT ![p] = Idle]
    /\ UNCHANGED << transaction, payment_action, last, voidSucceeded, asked, result >>

\* the card and amount of the Authorize calls made while calls are in flight
ConcAuthorizeInputs ==
  { a \in AuthorizeInputs :
      /\ a.Amount = Amount(2, "GBP", 2)
      /\ a.PAN \in {somePAN, StripSpaces(captureFailurePAN)} }

\* Authorize is one store call, CreateTransaction, which is one SQL transaction
AuthorizeStep ==
  \E authorization \in {a \in Authorizations :
                          [PAN |-> a.PaymentSource.PAN, Amount |-> a.Amount]
                            \in ConcAuthorizeInputs} :
    LET r == Authorize(transaction, payment_action, authorization)
    IN /\ Len(r.transaction) <= MaxTransactions
       /\ transaction' = r.transaction
       /\ payment_action' = r.payment_action
       /\ asked' = IF Len(r.transaction) > Len(transaction)
                   THEN Append(asked, authorization.Amount)
                   ELSE asked
       /\ UNCHANGED << last, voidSucceeded, calls, result >>

NextConc == AuthorizeStep \/ LoadStep \/ AppendStep \/ ReloadStep

SpecConc == Init /\ [][NextConc]_vars

(***************************************************************************)
(* Vocabulary of the properties.                                           *)
(***************************************************************************)
\* what the store returns for authorizationID a in the current state
Stored(a) == GetTransaction(transaction, payment_action, a)
\* the authorizationIDs the store returns a transaction for
Known == {a \in AuthorizationIDs : Stored(a).err = ErrNone}
\* the transaction stored under a known authorizationID
Txn(a) == Stored(a).t[1]
\* the positions of the log of t that hold an action of this type and requestID
Positions(t, pat, requestID) ==
  {i \in DOMAIN t.PaymentActionSummary :
     /\ t.PaymentActionSummary[i].Type = pat
     /\ t.PaymentActionSummary[i].RequestID = requestID}
\* the sum of the amounts of the rows (given by their positions in table pa)
RECURSIVE SumOfRows(_, _)
SumOfRows(pa, positions) ==
  IF positions = {} THEN 0
  ELSE LET i == CHOOSE j \in positions : TRUE
       IN pa[i].amount[1] + SumOfRows(pa, positions \ {i})
\* the positions in table pa of the rows of a transaction with a type and a status
RowsOf(pa, transactionID, pat, status) ==
  {i \in DOMAIN pa : /\ pa[i].transaction_id = transactionID
                     /\ pa[i].type = pat
                     /\ pa[i].status = status}

(***************************************************************************)
(* C1                                                                      *)
(***************************************************************************)
\* C1: after any sequence of Authorize, Capture, Refund and Void calls run one
\* at a time, every transaction has capturedAmount <= authorizedAmount and
\* refundedAmount <= capturedAmount (minor units).
C1_TotalsOrdered ==
  \A a \in Known :
    /\ Txn(a).CapturedAmount.MinorUnits <= Txn(a).AuthorizedAmount.MinorUnits
    /\ Txn(a).RefundedAmount.MinorUnits <= Txn(a).CapturedAmount.MinorUnits

\* a refund has just been appended that brings the refunds up to the captures,
\* which are up to the authorized amount
C1_Witness ==
  /\ last.op = OpRefund /\ last.inserted
  /\ \E a \in Known :
       /\ Txn(a).RefundedAmount.MinorUnits > 0
       /\ Txn(a).RefundedAmount.MinorUnits = Txn(a).CapturedAmount.MinorUnits
       /\ Txn(a).CapturedAmount.MinorUnits = Txn(a).AuthorizedAmount.MinorUnits

(***************************************************************************)
(* C2                                                                      *)
(***************************************************************************)
\* the same request made twice in a row, the first call returning without
\* error: the second returns without error the same aggregate, it leaves the
\* tables as the first left them, and the log returned holds exactly one
\* action of the request's type and requestID
TwiceOK(r1, r2, pat, requestID) ==
  r1.err = ErrNone =>
    /\ r2.err = ErrNone
    /\ r2.t = r1.t
    /\ r2.payment_action = r1.payment_action
    /\ Cardinality(Positions(r2.t[1], pat, requestID)) = 1

\* C2: calling Capture twice in succession with the same request appends
\* exactly one capture action, counts its amount once, and both calls return
\* without error the same aggregate; the same for Refund and for Void.
C2_TwiceAppendsOnce ==
  /\ \A c \in Captures :
       LET r1 == Capture(transaction, payment_action, c)
           r2 == Capture(r1.transaction, r1.payment_action, c)
       IN TwiceOK(r1, r2, PaymentActionTypeCapture, c.RequestID)
  /\ \A c \in Refunds :
       LET r1 == Refund(transaction, payment_action, c)
           r2 == Refund(r1.transaction, r1.payment_action, c)
       IN TwiceOK(r1, r2, PaymentActionTypeRefund, c.RequestID)
  /\ \A v \in Voids :
       LET r1 == Void(transaction, payment_action, v)
           r2 == Void(r1.transaction, r1.payment_action, v)
       IN TwiceOK(r1, r2, PaymentActionTypeVoid, v.RequestID)

(***************************************************************************)
(* C3                                                                      *)
(***************************************************************************)
\* C3: once the log of a transaction holds a successful void action, no later
\* call appends an action to it: the log and the three totals stay as they are.
C3_VoidedLogFrozen ==
  [][\A a \in Known :
       Voided(Txn(a)) => GetTransaction(transaction', payment_action', a) = Stored(a)]_vars

\* a Capture, Refund or Void was just refused on a voided transaction
C3_Witness ==
  /\ last.op \in {OpCapture, OpRefund, OpVoid}
  /\ last.err = ErrUnprocessable
  /\ last.AuthorizationID \in Known
  /\ Voided(Txn(last.AuthorizationID))

AfterVoid(t, r, pat, requestID) ==
  IF Positions(t, pat, requestID) # {}
  THEN r.err = ErrNone /\ r.t = Ptr(t)
  ELSE r.err = ErrUnprocessable

C5_NoVoidAfterCapture ==
  \A v \in Voids : (v.AuthorizationID \in Known /\ Captured(Txn(v.AuthorizationID))) =>
    LET r == Void(transaction, payment_action, v)
    IN /\ r.payment_action = payment_action
       /\ r.transaction = transaction
       /\ (Positions(Txn(v.AuthorizationID), PaymentActionTypeVoid, v.RequestID) = {}
             => r.err = ErrUnprocessable)

\* a Void was just refused on a captured transaction that is not voided
C5_Witness ==
  /\ last.op = OpVoid /\ last.err = ErrUnprocessable
  /\ last.AuthorizationID \in Known
  /\ Captured(Txn(last.AuthorizationID))
  /\ ~Voided(Txn(last.AuthorizationID))

(***************************************************************************)
(* C6                                                                      *)
(***************************************************************************)
\* C6: once the log of a transaction holds a successful refund action, no
\* Capture call appends a capture action: a Capture with a new requestID fails
\* with Unprocessable, whatever its amount.
C6_NoCaptureAfterRefund ==
  \A c \in Captures : (c.AuthorizationID \in Known /\ Refunded(Txn(c.AuthorizationID))) =>
    LET r == Capture(transaction, payment_action, c)
    IN /\ r.payment_action = payment_action
       /\ r.transaction = transaction
       /\ (Positions(Txn(c.AuthorizationID), PaymentActionTypeCapture, c.RequestID) = {}
             => r.err = ErrUnprocessable)

\* a Capture was just refused on a refunded transaction that is not voided
C6_Witness ==
  /\ last.op = OpCapture /\ last.err = ErrUnprocessable
  /\ last.AuthorizationID \in Known
  /\ Refunded(Txn(last.AuthorizationID))
  /\ ~Voided(Txn(last.AuthorizationID))

(***************************************************************************)
(* C7                                                                      *)
(***************************************************************************)
\* C7: ValidateCapture(amount) accepts if and only if the log has no
\* successful void, the log has no successful refund, the currency of amount
\* is the transaction's, and capturedAmount + amount.minorUnits (the sum of
\* the two numbers) is at most authorizedAmount.
C7_CaptureAcceptsIff ==
  \A a \in Known : \A m \in AmountInputs :
    LET t == Txn(a)
        log == t.PaymentActionSummary
    IN (ValidateCapture(t, m) = "") <=>
         /\ ~ \E i \in DOMAIN log :
                log[i].Type = PaymentActionTypeVoid
                  /\ log[i].Status = PaymentActionStatusSuccess
         /\ ~ \E i \in DOMAIN log :
                log[i].Type = PaymentActionTypeRefund
                  /\ log[i].Status = PaymentActionStatusSuccess
         /\ m.Currency = t.Amount.Currency
         /\ t.CapturedAmount.MinorUnits + m.MinorUnits <= t.AuthorizedAmount.MinorUnits

(***************************************************************************)
(* C8                                                                      *)
(***************************************************************************)
\* C8: ValidateRefund(amount) accepts if and only if the log has no successful
\* void, the currency of amount is the transaction's, and refundedAmount +
\* amount.minorUnits (the sum of the two numbers) is at most capturedAmount.
C8_RefundAcceptsIff ==
  \A a \in Known : \A m \in AmountInputs :
    LET t == Txn(a)
        log == t.PaymentActionSummary
    IN (ValidateRefund(t, m) = "") <=>
         /\ ~ \E i \in DOMAIN log :
                log[i].Type = PaymentActionTypeVoid
                  /\ log[i].Status = PaymentActionStatusSuccess
         /\ m.Currency = t.Amount.Currency
         /\ t.RefundedAmount.MinorUnits + m.MinorUnits <= t.CapturedAmount.MinorUnits

(***************************************************************************)
(* C9                                                                      *)
(***************************************************************************)
\* the totals of aggregate t are those of the rows of its transaction in pa
TotalsMatch(t, pa) ==
  /\ \A i \in RowsOf(pa, t.ID, PaymentActionTypeAuthorization, PaymentActionStatusSuccess) :
       t.AuthorizedAmount.MinorUnits = pa[i].amount[1]
  /\ t.CapturedAmount.MinorUnits =
       SumOfRows(pa, RowsOf(pa, t.ID, PaymentActionTypeCapture, PaymentActionStatusSuccess))
  /\ t.RefundedAmount.MinorUnits =
       SumOfRows(pa, RowsOf(pa, t.ID, PaymentActionTypeRefund, PaymentActionStatusSuccess))

\* C9: in every aggregate the store returns, and so in every aggregate that
\* Capture, Refund and Void return, authorizedAmount is the amount of the
\* successful authorization action, capturedAmount the sum of the amounts of
\* the successful capture actions and refundedAmount the sum of the amounts of
\* the successful refund actions; failed actions contribute nothing.
C9_TotalsAreSums ==
  /\ \A a \in Known : TotalsMatch(Txn(a), payment_action)
  /\ \A c \in Captures :
       LET r == Capture(transaction, payment_action, c)
       IN r.err = ErrNone => TotalsMatch(r.t[1], r.payment_action)
  /\ \A c \in Refunds :
       LET r == Refund(transaction, payment_action, c)
       IN r.err = ErrNone => TotalsMatch(r.t[1], r.payment_action)
  /\ \A v \in Voids :
       LET r == Void(transaction, payment_action, v)
       IN r.err = ErrNone => TotalsMatch(r.t[1], r.payment_action)

\* a Capture just returned an aggregate whose log holds a capture of a positive
\* amount with status failed
C9_Witness ==
  /\ last.op = OpCapture /\ last.err = ErrNone /\ last.inserted
  /\ last.AuthorizationID \in Known
  /\ \E i \in DOMAIN Txn(last.AuthorizationID).PaymentActionSummary :
       LET p == Txn(last.AuthorizationID).PaymentActionSummary[i]
       IN /\ p.Type = PaymentActionTypeCapture
          /\ p.Status = PaymentActionStatusFailed
          /\ p.Amount[1].MinorUnits > 0

(***************************************************************************)
(* C10                                                                     *)
(***************************************************************************)
\* C10: in every reachable state, the action log of a transaction holds no two
\* actions with the same (type, requestID) pair.
C10_UniqueTypeRequestID ==
  /\ \A a \in Known :
       LET log == Txn(a).PaymentActionSummary
       IN \A i, j \in DOMAIN log :
            i # j => << log[i].Type, log[i].RequestID >> # << log[j].Type, log[j].RequestID >>
  /\ \A i, j \in DOMAIN payment_action :
       (i # j /\ payment_action[i].transaction_id = payment_action[j].transaction_id)
         => << payment_action[i].type, payment_action[i].request_id >>
              # << payment_action[j].type, payment_action[j].request_id >>

\* a request was just repeated, as a no-op, on a log of two actions or more
C10_Witness ==
  /\ last.idempotent /\ last.err = ErrNone
  /\ last.AuthorizationID \in Known
  /\ Len(Txn(last.AuthorizationID).PaymentActionSummary) >= 2

(***************************************************************************)
(* C11                                                                     *)
(***************************************************************************)
\* the call returned r without error and was not taken as a replay (no action
\* of type pat in the log it loaded carries requestID): the log it returns
\* holds an action of type pat with requestID
NewActionIn(r, pat, requestID) ==
  (r.err = ErrNone /\ ~r.idempotent) => Positions(r.t[1], pat, requestID) # {}

\* C11: a Capture, Refund or Void whose requestID no action of its type in the
\* transaction's log carries, and that passes validation and returns without
\* error, returns a log that holds a new action of its type with its
\* requestID, also when an action of another type or of another transaction
\* carries that requestID already.
C11_KeyIsPerType ==
  /\ \A c \in Captures :
       NewActionIn(Capture(transaction, payment_action, c),
                   PaymentActionTypeCapture, c.RequestID)
  /\ \A c \in Refunds :
       NewActionIn(Refund(transaction, payment_action, c),
                   PaymentActionTypeRefund, c.RequestID)
  /\ \A v \in Voids :
       NewActionIn(Void(transaction, payment_action, v),
                   PaymentActionTypeVoid, v.RequestID)

(***************************************************************************)
(* C12                                                                     *)
(***************************************************************************)
\* the captured total of the transaction of authorizationID a exceeds its
\* authorized total in tables tt, pa
Exceeds(tt, pa, a) ==
  LET got == GetTransaction(tt, pa, a)
  IN /\ got.err = ErrNone
     /\ got.t[1].CapturedAmount.MinorUnits > got.t[1].AuthorizedAmount.MinorUnits

\* goroutine p is about to append for a Capture on a that it validated against
\* a log that is no longer the log of the transaction (a stale read)
StaleCapture(p, a) ==
  /\ calls[p].pc = "validated"
  /\ calls[p].op = OpCapture
  /\ calls[p].req[1].AuthorizationID = a
  /\ calls[p].loaded[1].PaymentActionSummary # Txn(a).PaymentActionSummary

\* C12: with Capture calls in flight together, capturedAmount comes to exceed
\* authorizedAmount, and it does so in one way only: a Capture that passed
\* validation against a read that is stale by the time it appends (an action
\* of another call was appended in between) appends its successful capture.
C12_ExcessByStaleCapture ==
  [][\A a \in AuthorizationIDs :
       (~Exceeds(transaction, payment_action, a)
          /\ Exceeds(transaction', payment_action', a))
         => \E p \in Procs : StaleCapture(p, a) /\ calls'[p].pc = "appended"]_vars

\* two Capture calls with distinct requestIDs have both appended a successful
\* capture, both counted, and capturedAmount exceeds authorizedAmount
C12_Witness ==
  /\ \A p \in Procs : calls[p].pc = "appended" /\ calls[p].op = OpCapture
  /\ calls[1].req[1].RequestID # calls[2].req[1].RequestID
  /\ calls[1].req[1].AuthorizationID = calls[2].req[1].AuthorizationID
  /\ LET a == calls[1].req[1].AuthorizationID
     IN /\ Exceeds(transaction, payment_action, a)
        /\ \A p \in Procs :
             \E i \in Positions(Txn(a), PaymentActionTypeCapture, calls[p].req[1].RequestID) :
               CaptureSuccess(Txn(a).PaymentActionSummary[i])

(***************************************************************************)
(* C13                                                                     *)
(***************************************************************************)
\* goroutines p and q serve the same operation with the same requestID on the
\* same transaction, and both passed the replay test and the validation
SameRequestInFlight(p, q) ==
  /\ p # q
  /\ calls[p].pc \in {"validated", "appended"}
  /\ calls[q].pc \in {"validated", "appended"}
  /\ calls[p].op = calls[q].op
  /\ calls[p].req[1].RequestID = calls[q].req[1].RequestID
  /\ calls[p].req[1].AuthorizationID = calls[q].req[1].AuthorizationID

\* what the CreatePaymentAction of goroutine p gives on table pa, if p has
\* still to make it
AppendOf(p, pa) ==
  IF calls[p].pc = "validated"
  THEN CreatePaymentAction(transaction, pa, calls[p].loaded[1].ID,
                           calls[p].req[1].RequestID, TypeOf(calls[p].op),
                           calls[p].req[1].Amount)
  ELSE [err |-> ErrNone, payment_action |-> pa]

\* C13: when two calls of the same operation with the same requestID on the
\* same transaction interleave, none of their store calls fails, the log ends
\* with at most one action of that type and requestID, and the totals count
\* each successful action once; in every state, no log holds two actions of
\* the same type and requestID.
C13_SameRequestAppendsOnce ==
  /\ \A a \in Known :
       /\ TotalsMatch(Txn(a), payment_action)
       /\ \A i, j \in DOMAIN Txn(a).PaymentActionSummary :
            (/\ Txn(a).PaymentActionSummary[i].Type = Txn(a).PaymentActionSummary[j].Type
             /\ Txn(a).PaymentActionSummary[i].RequestID
                  = Txn(a).PaymentActionSummary[j].RequestID) => i = j
  /\ \A p, q \in Procs :
       SameRequestInFlight(p, q) =>
         LET first == AppendOf(p, payment_action)
             second == AppendOf(q, first.payment_action)
             got == GetTransaction(transaction, second.payment_action,
                                   calls[p].req[1].AuthorizationID)
         IN /\ first.err = ErrNone
            /\ second.err = ErrNone
            /\ got.err = ErrNone
            /\ Cardinality(Positions(got.t[1], TypeOf(calls[p].op),
                                     calls[p].req[1].RequestID)) <= 1
            /\ TotalsMatch(got.t[1], second.payment_action)

\* two Refund calls with the same requestID have both made their
\* CreatePaymentAction, and the log holds one refund with that requestID
C13_Witness ==
  /\ SameRequestInFlight(1, 2)
  /\ calls[1].pc = "appended" /\ calls[2].pc = "appended"
  /\ calls[1].op = OpRefund
  /\ Cardinality(Positions(Txn(calls[1].req[1].AuthorizationID),
                           PaymentActionTypeRefund, calls[1].req[1].RequestID)) = 1
  /\ Txn(calls[1].req[1].AuthorizationID).RefundedAmount.MinorUnits > 0

(***************************************************************************)
(* C14                                                                     *)
(***************************************************************************)
\* C14: in every reachable state, also when a Void call and a Capture call on
\* the same transaction interleave, no action log holds both a successful void
\* action and a successful capture action.
C14_NeverVoidedAndCaptured ==
  \A a \in Known : ~(Voided(Txn(a)) /\ Captured(Txn(a)))

(***************************************************************************)
(* C15                                                                     *)
(***************************************************************************)
\* the store holds no transaction for authorizationID a
NoTransaction(a) ==
  \A i \in DOMAIN transaction : transaction[i].authorization_id # a

\* the call returned r with ErrTransactionNotFound, which is not
\* ErrUnprocessable, right after its GetTransaction: it loaded nothing and
\* payment_action is as it was
NotFoundOnly(r) ==
  /\ r.err = ErrTransactionNotFound
  /\ r.err # ErrUnprocessable
  /\ r.t = Nil /\ r.loaded = Nil
  /\ r.transaction = transaction
  /\ r.payment_action = payment_action

\* C15: Capture, Refund and Void called with an authorizationID for which the
\* store holds no transaction fail with ErrTransactionNotFound, which differs
\* from ErrUnprocessable, and make no CreatePaymentAction call.
C15_UnknownIsNotFound ==
  /\ \A c \in Captures :
       NoTransaction(c.AuthorizationID)
         => NotFoundOnly(Capture(transaction, payment_action, c))
  /\ \A c \in Refunds :
       NoTransaction(c.AuthorizationID)
         => NotFoundOnly(Refund(transaction, payment_action, c))
  /\ \A v \in Voids :
       NoTransaction(v.AuthorizationID)
         => NotFoundOnly(Void(transaction, payment_action, v))

\* a Refund on an authorizationID the store does not hold has just returned
\* ErrTransactionNotFound, while the store holds another transaction
C15_Witness ==
  /\ last.op = OpRefund
  /\ last.err = ErrTransactionNotFound
  /\ NoTransaction(last.AuthorizationID)
  /\ ~last.inserted
  /\ Known # {}

(***************************************************************************)
(* C16                                                                     *)
(***************************************************************************)
\* the call returned r: if with ErrUnprocessable, both tables are as before
UnprocessableWritesNothing(r) ==
  r.err = ErrUnprocessable =>
    /\ r.transaction = transaction
    /\ r.payment_action = payment_action

\* C16: whenever Authorize, Capture, Refund or Void returns ErrUnprocessable,
\* the store is as it was before the call: no transaction was created and no
\* action was appended.
C16_UnprocessableWritesNothing ==
  /\ \A authorization \in Authorizations :
       UnprocessableWritesNothing(Authorize(transaction, payment_action, authorization))
  /\ \A c \in Captures :
       UnprocessableWritesNothing(Capture(transaction, payment_action, c))
  /\ \A c \in Refunds :
       UnprocessableWritesNothing(Refund(transaction, payment_action, c))
  /\ \A v \in Voids :
       UnprocessableWritesNothing(Void(transaction, payment_action, v))

\* a Capture on a stored transaction has just returned ErrUnprocessable, and an
\* Authorize with a card that fails validation would return it too
C16_Witness ==
  /\ last.op = OpCapture
  /\ last.err = ErrUnprocessable
  /\ ~last.inserted
  /\ last.AuthorizationID \in Known
  /\ \E authorization \in Authorizations :
       Authorize(transaction, payment_action, authorization).err = ErrUnprocessable

(***************************************************************************)
(* C17                                                                     *)
(***************************************************************************)
\* C17: Authorize with a card number that luhn.Validate refuses returns
\* ErrUnprocessable and no transaction, and leaves the store as it was (it
\* never calls CreateTransaction); with a card number that luhn.Validate
\* accepts, what it returns and what it leaves in the store are the result of
\* one CreateTransaction call on the store it found.
C17_AuthorizeValidatesFirst ==
  \A authorization \in Authorizations :
    LET r == Authorize(transaction, payment_action, authorization)
        created == CreateTransaction(transaction, payment_action, authorization)
    IN IF Validate(authorization.PaymentSource.PAN) # LuhnOK
       THEN /\ r.err = ErrUnprocessable
            /\ r.t = Nil
            /\ r.transaction = transaction
            /\ r.payment_action = payment_action
       ELSE /\ r.err = created.err
            /\ r.err # ErrUnprocessable
            /\ r.t = created.t
            /\ r.transaction = created.transaction
            /\ r.payment_action = created.payment_action
            /\ Len(r.transaction) <= Len(transaction) + 1
            /\ Len(r.payment_action) <= Len(payment_action) + 1

\* an Authorize with a card that fails validation has just returned
\* ErrUnprocessable, after an Authorize with a valid card created a transaction
C17_Witness ==
  /\ last.op = OpAuthorize
  /\ last.err = ErrUnprocessable
  /\ Len(transaction) = 1
  /\ Len(payment_action) = 1

(***************************************************************************)
(* C18                                                                     *)
(***************************************************************************)
\* no transaction and no payment action carries requestID
FreshRequestID(requestID) ==
  /\ \A i \in DOMAIN transaction : transaction[i].request_id # requestID
  /\ \A i \in DOMAIN payment_action : payment_action[i].request_id # requestID

\* Authorize returned r for this request: no error, one transaction more in
\* the store, and an aggregate whose log is one successful authorization of
\* the request's amount and whose totals are that amount, 0 and 0 in the
\* request's currency and exponent
AuthorizedAsAsked(r, authorization) ==
  /\ r.err = ErrNone
  /\ Len(r.transaction) = Len(transaction) + 1
  /\ \A i \in DOMAIN transaction :
       transaction[i].authorization_id # r.t[1].AuthorizationID
  /\ Len(r.t[1].PaymentActionSummary) = 1
  /\ AuthorizationSuccess(r.t[1].PaymentActionSummary[1])
  /\ r.t[1].PaymentActionSummary[1].Amount[1].MinorUnits = authorization.Amount.MinorUnits
  /\ r.t[1].AuthorizedAmount = authorization.Amount
  /\ r.t[1].CapturedAmount = Amount(0, authorization.Amount.Currency,
                                    authorization.Amount.Exponent)
  /\ r.t[1].RefundedAmount = Amount(0, authorization.Amount.Currency,
                                    authorization.Amount.Exponent)

\* the request has a card that luhn.Validate accepts and that is not the
\* authorization-failure card, and a fresh requestID
ValidFreshAuthorization(authorization) ==
  /\ Validate(authorization.PaymentSource.PAN) = LuhnOK
  /\ StripSpaces(authorization.PaymentSource.PAN) # StripSpaces(authorisationFailurePAN)
  /\ FreshRequestID(authorization.RequestID)

\* C18: Authorize with a valid card that is not the authorization-failure
\* card, an amount {m, c, e} and a fresh requestID returns a new aggregate
\* whose log holds exactly one successful authorization action of amount m and
\* whose totals are authorizedAmount {m, c, e}, capturedAmount {0, c, e} and
\* refundedAmount {0, c, e}.
C18_AuthorizeReturnsAmounts ==
  \A authorization \in Authorizations :
    ValidFreshAuthorization(authorization)
      => AuthorizedAsAsked(Authorize(transaction, payment_action, authorization),
                           authorization)

(***************************************************************************)
(* C19                                                                     *)
(***************************************************************************)
\* the authorizationIDs of the transactions created with requestID
CreatedWith(requestID) ==
  {transaction[i].authorization_id :
     i \in {j \in DOMAIN transaction : transaction[j].request_id = requestID}}

\* Authorize returned r and changed nothing in the store
CreatesNothing(r) ==
  /\ r.transaction = transaction
  /\ r.payment_action = payment_action

\* Authorize returned r without error, with the state the store holds for
\* authorizationID a
ReturnsStored(r, a) ==
  /\ r.err = ErrNone
  /\ Stored(a).err = ErrNone
  /\ r.t[1].AuthorizationID = a
  /\ r.t[1].PaymentActionSummary = Txn(a).PaymentActionSummary
  /\ r.t[1].AuthorizedAmount = Txn(a).AuthorizedAmount
  /\ r.t[1].CapturedAmount = Txn(a).CapturedAmount
  /\ r.t[1].RefundedAmount = Txn(a).RefundedAmount

\* C19: an Authorize with a requestID that an earlier Authorize used creates
\* no second transaction and no second authorization action, and returns the
\* aggregate state the store holds for that transaction (authorizationID,
\* action log, the three totals), whatever happened to the transaction in
\* between and whatever amount the replay carries.
C19_AuthorizeReplayReturnsStored ==
  \A authorization \in Authorizations :
    \A a \in CreatedWith(authorization.RequestID) :
      Validate(authorization.PaymentSource.PAN) = LuhnOK =>
        LET r == Authorize(transaction, payment_action, authorization)
        IN CreatesNothing(r) /\ ReturnsStored(r, a)

(***************************************************************************)
(* C20                                                                     *)
(***************************************************************************)
\* every capture and refund action in the log of a stored transaction carries
\* the currency of the transaction's amount
ActionsInCurrency ==
  \A a \in Known :
    \A i \in DOMAIN Txn(a).PaymentActionSummary :
      Txn(a).PaymentActionSummary[i].Type
          \in {PaymentActionTypeCapture, PaymentActionTypeRefund}
        => Txn(a).PaymentActionSummary[i].Amount[1].Currency = Txn(a).Amount.Currency

\* request c (a Capture or a Refund) is on a stored transaction and its amount
\* has another currency than the transaction
OtherCurrency(c) ==
  /\ c.AuthorizationID \in Known
  /\ c.Amount.Currency # Txn(c.AuthorizationID).Amount.Currency

\* C20 as claimed: every capture and refund action in a log carries the
\* currency of the transaction's original amount, and every Capture or Refund
\* whose amount has another currency fails with ErrUnprocessable and appends
\* nothing.
C20_OtherCurrencyFails ==
  /\ ActionsInCurrency
  /\ \A c \in Captures :
       OtherCurrency(c) =>
         LET r == Capture(transaction, payment_action, c)
         IN r.err = ErrUnprocessable /\ r.payment_action = payment_action
  /\ \A c \in Refunds :
       OtherCurrency(c) =>
         LET r == Refund(transaction, payment_action, c)
         IN r.err = ErrUnprocessable /\ r.payment_action = payment_action

\* the call returned r for a request of type pat in another currency: nothing
\* is appended; it is refused with ErrUnprocessable, unless an action of type
\* pat with its requestID is in the log, and then it returns the stored
\* aggregate without error
RefusedOrReplay(r, c, pat) ==
  /\ r.payment_action = payment_action
  /\ r.transaction = transaction
  /\ IF IsRequestIDIdempotent(Txn(c.AuthorizationID), pat, c.RequestID)
     THEN r.err = ErrNone /\ r.t = Stored(c.AuthorizationID).t
     ELSE r.err = ErrUnprocessable

\* C20 (amended): every capture and refund action in a log carries the
\* currency of the transaction's original amount; a Capture or Refund whose
\* amount has another currency appends nothing, and it fails with
\* ErrUnprocessable unless its (type, requestID) is in the log already, in
\* which case it is a replay that returns the stored aggregate without error.
C20_OtherCurrencyNeverAppended ==
  /\ ActionsInCurrency
  /\ \A c \in Captures :
       OtherCurrency(c) =>
         RefusedOrReplay(Capture(transaction, payment_action, c), c,
                         PaymentActionTypeCapture)
  /\ \A c \in Refunds :
       OtherCurrency(c) =>
         RefusedOrReplay(Refund(transaction, payment_action, c), c,
                         PaymentActionTypeRefund)

\* a Capture has just been refused on a transaction with a successful capture
\* in its log, on which a capture is refused for its currency alone: the same
\* amount in the transaction's currency passes ValidateCapture
C20_Witness ==
  /\ last.op = OpCapture
  /\ last.err = ErrUnprocessable
  /\ last.AuthorizationID \in Known
  /\ Captured(Txn(last.AuthorizationID))
  /\ \E c \in Captures :
       /\ c.AuthorizationID = last.AuthorizationID
       /\ OtherCurrency(c)
       /\ ValidateCapture(Txn(c.AuthorizationID), c.Amount) = "currency is different"
       /\ ValidateCapture(Txn(c.AuthorizationID),
                          [c.Amount EXCEPT !.Currency = Txn(c.AuthorizationID).Amount.Currency])
            = ""

(***************************************************************************)
(* C21                                                                     *)
(***************************************************************************)
\* amount and the three totals of aggregate t all have exponent e
ExponentsAre(t, e) ==
  /\ t.Amount.Exponent = e
  /\ t.AuthorizedAmount.Exponent = e
  /\ t.CapturedAmount.Exponent = e
  /\ t.RefundedAmount.Exponent = e

\* the call on the transaction of id a returned r: if without error, the
\* aggregate has the exponent the Authorize request of a asked for
ExponentKept(r, a) ==
  (r.err = ErrNone /\ a \in DOMAIN asked) => ExponentsAre(r.t[1], asked[a].Exponent)

\* C21: in every aggregate returned by Authorize, Capture, Refund or Void, the
\* exponent of amount, authorizedAmount, capturedAmount and refundedAmount is
\* the exponent of the amount of the Authorize request that created the
\* transaction.
C21_ExponentCarried ==
  /\ \A authorization \in Authorizations :
       LET r == Authorize(transaction, payment_action, authorization)
       IN r.err = ErrNone =>
            ExponentsAre(r.t[1],
                         IF r.t[1].ID \in DOMAIN asked
                         THEN asked[r.t[1].ID].Exponent
                         ELSE authorization.Amount.Exponent)
  /\ \A c \in Captures :
       ExponentKept(Capture(transaction, payment_action, c), c.AuthorizationID)
  /\ \A c \in Refunds :
       ExponentKept(Refund(transaction, payment_action, c), c.AuthorizationID)
  /\ \A v \in Voids :
       ExponentKept(Void(transaction, payment_action, v), v.AuthorizationID)

(***************************************************************************)
(* C22                                                                     *)
(***************************************************************************)
\* the positions of the authorization actions in the log of t
AuthorizationsOf(t) ==
  {i \in DOMAIN t.PaymentActionSummary :
     t.PaymentActionSummary[i].Type = PaymentActionTypeAuthorization}

\* the log of t holds exactly one successful authorization action, and so
\* AuthorizationDate() is present
OneSuccessfulAuthorization(t) ==
  /\ Cardinality({i \in AuthorizationsOf(t) :
                    AuthorizationSuccess(t.PaymentActionSummary[i])}) = 1
  /\ AuthorizationDate(t) # Nil

\* the call returned r: if without error, r's aggregate satisfies P
ReturnedHas(r, P(_)) == r.err = ErrNone => P(r.t[1])

IsAuthorisationFailureCard(pan) ==
  StripSpaces(pan) = StripSpaces(authorisationFailurePAN)

\* the log of t holds exactly one authorization action; it is failed and
\* AuthorizationDate() is absent if the card is the authorization-failure
\* card, and successful with AuthorizationDate() present if not
OneAuthorizationFor(t, pan) ==
  /\ Cardinality(AuthorizationsOf(t)) = 1
  /\ \A i \in AuthorizationsOf(t) :
       t.PaymentActionSummary[i].Status =
         IF IsAuthorisationFailureCard(pan)
         THEN PaymentActionStatusFailed
         ELSE PaymentActionStatusSuccess
  /\ (AuthorizationDate(t) = Nil) <=> IsAuthorisationFailureCard(pan)

\* the card number stored for the transaction of aggregate t
CardOf(t) ==
  transaction[CHOOSE i \in DOMAIN transaction : transaction[i].id = t.ID].card_pan

\* the call on a stored transaction returned r: if without error, the
\* aggregate has the one authorization action its stored card gives
ReturnedAuthorizationOfCard(r) ==
  r.err = ErrNone => OneAuthorizationFor(r.t[1], CardOf(r.t[1]))

MaxPanLen == 2

\* the characters of the enumerated strings: digits, a letter, a space, signs
LuhnAlphabet == {"0", "1", "8", "9", "a", " ", "+", "-"}

\* card numbers of the validator's tests
validPAN ==
  << "1","2","3","4","5","6","7","8","1","2","3","4","5","6","7","0" >>
invalidPAN ==
  << "1","2","3","4","5","6","7","8","1","2","3","4","5","6","7","8" >>
alphabetPAN == << "a","b","1","l","d","a","f","7","1","6" >>

\* 19-digit numbers around 1<<63 - 1: the largest int whose checksum is right,
\* the largest int, and the next two numbers, the second with a right checksum
longPANs ==
  { << "9","2","2","3","3","7","2","0","3","6","8","5","4","7","7","5","7","9","1" >>,
    << "9","2","2","3","3","7","2","0","3","6","8","5","4","7","7","5","8","0","7" >>,
    << "9","2","2","3","3","7","2","0","3","6","8","5","4","7","7","5","8","0","8" >>,
    << "9","2","2","3","3","7","2","0","3","6","8","5","4","7","7","5","8","0","9" >>,
    << "9","9","9","9","9","9","9","9","9","9","9","9","9","9","9","9","9","9","9" >> }

\* the strings Validate is applied to
LuhnInputs ==
  UNION {[1 .. n -> LuhnAlphabet] : n \in 1 .. MaxPanLen}
    \cup longPANs
    \cup {validPAN, invalidPAN, alphabetPAN, somePAN, badPAN,
          authorisationFailurePAN, StripSpaces(authorisationFailurePAN),
          << "+" >> \o somePAN, << "-" >> \o badPAN}

\* Validate not yet applied to pan
ValidatePending(pan) == [fn |-> "Validate", pan |-> pan, done |-> FALSE, err |-> LuhnOK]

InitLuhn ==
  /\ transaction = << >>
  /\ payment_action = << >>
  /\ last = [op |-> OpNone, AuthorizationID |-> 0, err |-> ErrNone,
             idempotent |-> FALSE, inserted |-> FALSE]
  /\ voidSucceeded = {}
  /\ calls = [p \in Procs |-> Idle]
  /\ asked = << >>
  /\ \E pan \in LuhnInputs : result = ValidatePending(pan)

\* luhn.Validate(pan) returns
DoValidate ==
  /\ result.fn = "Validate" /\ ~result.done
  /\ result' = [result EXCEPT !.done = TRUE, !.err = Validate(result.pan)]
  /\ UNCHANGED << transaction, payment_action, last, voidSucceeded, calls, asked >>

NextLuhn == DoValidate

SpecLuhn == InitLuhn /\ [][NextLuhn]_vars

(***************************************************************************)
(* C23                                                                     *)
(***************************************************************************)
\* s is a non-empty string of at most 19 decimal digits
IsDigitString(s) ==
  /\ Len(s) \in 1 .. 19
  /\ \A i \in DOMAIN s : s[i] \in DigitChars

\* the Luhn sum of the digit string s up to its k-th character from the right:
\* every second digit from the right doubled, minus 9 when the double exceeds 9
RECURSIVE ChecksumUpTo(_, _)
ChecksumUpTo(s, k) ==
  IF k = 0 THEN 0
  ELSE LET d == DigitVal(s[Len(s) - k + 1])
           v == IF k % 2 = 1 THEN d
                ELSE IF 2 * d > 9 THEN 2 * d - 9 ELSE 2 * d
       IN v + ChecksumUpTo(s, k - 1)

ChecksumDivisible(s) == ChecksumUpTo(s, Len(s)) % 10 = 0

\* C23: for every non-empty string of at most 19 decimal digits, Validate
\* succeeds if and only if the Luhn sum is divisible by 10, and fails with the
\* checksum error otherwise, never with the non-numeric error.
C23_ValidateIffChecksum ==
  (result.fn = "Validate" /\ result.done /\ IsDigitString(result.pan)) =>
    result.err = IF ChecksumDivisible(result.pan) THEN LuhnOK ELSE LuhnFailed

(***************************************************************************)
(* C24                                                                     *)
(***************************************************************************)
\* s holds a character that is not a decimal digit
HasNonDigit(s) == \E i \in DOMAIN s : s[i] \notin DigitChars

\* C24: Validate rejects with the non-numeric error every input that holds a
\* character that is not a decimal digit (a letter, a space, a sign),
\* wherever the character stands.
C24_NonDigitRejected ==
  (result.fn = "Validate" /\ result.done /\ HasNonDigit(result.pan)) =>
    result.err = LuhnNonNumeric

(***************************************************************************)
(* C25                                                                     *)
(***************************************************************************)
\* the card number s written in groups of four digits separated by a space
RECURSIVE InGroupsOfFour(_)
InGroupsOfFour(s) ==
  IF Len(s) <= 4 THEN s
  ELSE SubSeq(s, 1, 4) \o << " " >> \o InGroupsOfFour(SubSeq(s, 5, Len(s)))

\* request q with its card number written with space separators
WithSpaces(q) == [q EXCEPT !.PaymentSource.PAN = InGroupsOfFour(q.PaymentSource.PAN)]

\* C25: Authorize accepts a card number written with space separators exactly
\* as it accepts the same number without them: the two spellings give the
\* same verdict and the same stored transaction, card and action.
C25_SpacesMakeNoDifference ==
  \A q \in Authorizations :
    LET plain == Authorize(transaction, payment_action, q)
        spaced == Authorize(transaction, payment_action, WithSpaces(q))
    IN /\ spaced.err = plain.err
       /\ spaced.transaction = plain.transaction
       /\ spaced.payment_action = plain.payment_action

(***************************************************************************)
(* C26                                                                     *)
(***************************************************************************)
\* the actions of a log, as a set
ActionsOf(log) == {log[i] : i \in DOMAIN log}

\* the store returned before for a transaction and returns after: the
\* transaction is still there and every action of the log before is in the
\* log after, with the same type, status, amount and requestID
LogKept(before, after) ==
  before.err = ErrNone =>
    /\ after.err = ErrNone
    /\ Len(after.t[1].PaymentActionSummary) >= Len(before.t[1].PaymentActionSummary)
    /\ ActionsOf(before.t[1].PaymentActionSummary)
         \subseteq ActionsOf(after.t[1].PaymentActionSummary)

\* C26: the action log of a transaction only grows: every action in the log
\* before an operation is in the log after it, with the same type, status,
\* amount and requestID, and no transaction is removed from the store.
C26_LogOnlyGrows ==
  [][/\ \A i \in DOMAIN transaction :
          \E j \in DOMAIN transaction' : transaction'[j] = transaction[i]
     /\ \A a \in AuthorizationIDs :
          LogKept(GetTransaction(transaction, payment_action, a),
                  GetTransaction(transaction', payment_action', a))]_vars

\* an action has just been appended to a log that now holds an authorization,
\* a capture and a refund
C26_Witness ==
  /\ last.inserted
  /\ \E a \in Known :
       LET log == Txn(a).PaymentActionSummary
       IN /\ Len(log) >= 3
          /\ \E i \in DOMAIN log : log[i].Type = PaymentActionTypeCapture
          /\ \E i \in DOMAIN log : log[i].Type = PaymentActionTypeRefund

(***************************************************************************)
(* internal/domain alone: ValidateCapture and ValidateRefund applied to an *)
(* aggregate with given totals.  The totals and the amount are drawn when  *)
(* the behaviour starts and the validator is applied once.                 *)
(***************************************************************************)
\* the values of a uint64
Uint64s == 0 .. MaxUint64

\* an aggregate in GBP with these totals, neither voided nor refunded
WithTotals(authorized, captured, refunded) ==
  [ID |-> 1, RequestID |-> 1, AuthorizationID |-> 1,
   Amount |-> Amount(authorized, "GBP", 2),
   AuthorizedAmount |-> Amount(authorized, "GBP", 2),
   CapturedAmount |-> Amount(captured, "GBP", 2),
   RefundedAmount |-> Amount(refunded, "GBP", 2),
   PaymentActionSummary |-> << >>]

\* validator fn not yet applied to aggregate t and amount a
ValidatorPending(fn, t, a) == [fn |-> fn, t |-> t, a |-> a, done |-> FALSE, err |-> ""]

InitValidate ==
  /\ transaction = << >>
  /\ payment_action = << >>
  /\ last = [op |-> OpNone, AuthorizationID |-> 0, err |-> ErrNone,
             idempotent |-> FALSE, inserted |-> FALSE]
  /\ voidSucceeded = {}
  /\ calls = [p \in Procs |-> Idle]
  /\ asked = << >>
  /\ \E total \in Uint64s, ceiling \in Uint64s, minorUnits \in Uint64s :
       \/ result = ValidatorPending("ValidateCapture",
                                    WithTotals(ceiling, total, 0),
                                    Amount(minorUnits, "GBP", 2))
       \/ result = ValidatorPending("ValidateRefund",
                                    WithTotals(ceiling, ceiling, total),
                                    Amount(minorUnits, "GBP", 2))

\* t.ValidateCapture(a) returns
DoValidateCapture ==
  /\ result.fn = "ValidateCapture" /\ ~result.done
  /\ result' = [result EXCEPT !.done = TRUE, !.err = ValidateCapture(result.t, result.a)]
  /\ UNCHANGED << transaction, payment_action, last, voidSucceeded, calls, asked >>

\* t.ValidateRefund(a) returns
DoValidateRefund ==
  /\ result.fn = "ValidateRefund" /\ ~result.done
  /\ result' = [result EXCEPT !.done = TRUE, !.err = ValidateRefund(result.t, result.a)]
  /\ UNCHANGED << transaction, payment_action, last, voidSucceeded, calls, asked >>

NextValidate == DoValidateCapture \/ DoValidateRefund

SpecValidate == InitValidate /\ [][NextValidate]_vars

(***************************************************************************)
(* C27                                                                     *)
(***************************************************************************)
\* C27: for all 64-bit unsigned capturedAmount, authorizedAmount and amount,
\* ValidateCapture rejects whenever the true sum capturedAmount + amount
\* exceeds authorizedAmount, also when the 64-bit sum wraps around; likewise
\* ValidateRefund whenever the true sum refundedAmount + amount exceeds
\* capturedAmount.
C27_TrueExcessRejected ==
  /\ (result.fn = "ValidateCapture" /\ result.done
        /\ result.t.CapturedAmount.MinorUnits + result.a.MinorUnits
             > result.t.AuthorizedAmount.MinorUnits)
       => result.err # ""
  /\ (result.fn = "ValidateRefund" /\ result.done
        /\ result.t.RefundedAmount.MinorUnits + result.a.MinorUnits
             > result.t.CapturedAmount.MinorUnits)
       => result.err # ""

(***************************************************************************)
(* internal/transport/transporthttp: the four handlers in front of the     *)
(* service, one request at a time.  A handler reads the body, decodes it,  *)
(* calls the service and writes the response; result holds the handler     *)
(* that ran, what the service returned to it and the response written.     *)
(***************************************************************************)
CodeNotFound == "not_found"
CodeUnknownFailure == "unknown_failure"
CodeBadRequest == "bad_request"
CodeUnprocessable == "unprocessable"

\* codeMap: the HTTP status of an error code
codeMap(code) ==
  CASE code = CodeNotFound -> 404
    [] code = CodeUnknownFailure -> 500
    [] code = CodeBadRequest -> 400
    [] code = CodeUnprocessable -> 422

\* WriteError: the status of the code and a body with the code and the message
WriteError(message, code) ==
  [status |-> codeMap(code), body |-> [code |-> code, message |-> message]]

\* mapToTransactionResp
mapToTransactionResp(t) ==
  [ID |-> t.ID, AuthorizationID |-> t.AuthorizationID,
   AuthorizedTime |-> AuthorizationDate(t),
   AuthorizedAmount |-> t.AuthorizedAmount,
   CapturedAmount |-> t.CapturedAmount,
   RefundedAmount |-> t.RefundedAmount,
   IsVoided |-> Voided(t)]

\* the response of a handler that encodes the transaction and never calls
\* WriteHeader: status 200
WriteTransaction(t) == [status |-> 200, body |-> mapToTransactionResp(t)]

\* request bodies: one that cannot be read, an empty one, one that is not the
\* JSON of a request, and the JSON of request q
UnreadableBody == [kind |-> "unreadable"]
EmptyBody == [kind |-> "empty"]
MalformedBody == [kind |-> "malformed"]
JSONBody(q) == [kind |-> "json", req |-> q]

\* the first part of every handler: ioutil.ReadAll, the test for an empty
\* body and json.Unmarshal; Nil if the request is decoded, else the response
ReadBody(body) ==
  CASE body.kind = "unreadable" ->
         Ptr(WriteError("error reading request body", CodeBadRequest))
    [] body.kind = "empty" ->
         Ptr(WriteError("missing request body", CodeBadRequest))
    [] body.kind = "malformed" ->
         Ptr(WriteError("failed to unmarshal request body", CodeBadRequest))
    [] OTHER -> Nil

\* what a handler did: the response, whether it called the service, the
\* error and the transaction the service returned, the tables afterwards
Handled(resp, tt, pa) ==
  [resp |-> resp, called |-> FALSE, err |-> ErrNone, t |-> Nil,
   transaction |-> tt, payment_action |-> pa]
HandledCall(resp, r) ==
  [resp |-> resp, called |-> TRUE, err |-> r.err, t |-> r.t,
   transaction |-> r.transaction, payment_action |-> r.payment_action]

\* the switch on the error of the service without its case for
\* ErrTransactionNotFound, as in the Authorize handler
ErrorResponseNoNotFound(err, operation) ==
  CASE err = ErrUnprocessable -> WriteError(err, CodeUnprocessable)
    [] OTHER -> WriteError("failed to " \o operation \o " transaction in service",
                           CodeUnknownFailure)

\* the switch on the error of the service in the Capture, Refund and Void
\* handlers; the message of an unprocessable request is the text of the
\* error, of which the model keeps the kind
ErrorResponse(err, operation) ==
  CASE err = ErrTransactionNotFound ->
         WriteError("unable to find the transaction with the authorization ID",
                    CodeNotFound)
    [] err = ErrUnprocessable -> WriteError(err, CodeUnprocessable)
    [] OTHER -> WriteError("failed to " \o operation \o " transaction in service",
                           CodeUnknownFailure)

\* httpHandler.Authorize
HandleAuthorize(tt, pa, body) ==
  LET r == Authorize(tt, pa, body.req)
  IN IF ReadBody(body) # Nil THEN Handled(ReadBody(body)[1], tt, pa)
     ELSE IF r.err = ErrUnprocessable
     THEN HandledCall(WriteError(r.err, CodeUnprocessable), r)
     ELSE IF r.err # ErrNone
     THEN HandledCall(WriteError("failed to authorize transaction in service",
                                 CodeUnknownFailure), r)
     ELSE HandledCall(WriteTransaction(r.t[1]), r)

\* httpHandler.Capture
HandleCapture(tt, pa, body) ==
  LET r == Capture(tt, pa, body.req)
  IN IF ReadBody(body) # Nil THEN Handled(ReadBody(body)[1], tt, pa)
     ELSE IF r.err # ErrNone THEN HandledCall(ErrorResponse(r.err, "capture"), r)
     ELSE HandledCall(WriteTransaction(r.t[1]), r)

\* httpHandler.Refund
HandleRefund(tt, pa, body) ==
  LET r == Refund(tt, pa, body.req)
  IN IF ReadBody(body) # Nil THEN Handled(ReadBody(body)[1], tt, pa)
     ELSE IF r.err # ErrNone THEN HandledCall(ErrorResponse(r.err, "refund"), r)
     ELSE HandledCall(WriteTransaction(r.t[1]), r)

\* httpHandler.Void
HandleVoid(tt, pa, body) ==
  LET r == Void(tt, pa, body.req)
  IN IF ReadBody(body) # Nil THEN Handled(ReadBody(body)[1], tt, pa)
     ELSE IF r.err # ErrNone THEN HandledCall(ErrorResponse(r.err, "void"), r)
     ELSE HandledCall(WriteTransaction(r.t[1]), r)

\* the requests sent over HTTP
HTTPAuthorizeInputs ==
  { [PAN |-> somePAN, Amount |-> Amount(2, "GBP", 2)],
    [PAN |-> StripSpaces(authorisationFailurePAN), Amount |-> Amount(2, "GBP", 2)],
    [PAN |-> badPAN, Amount |-> Amount(2, "GBP", 2)] }
HTTPAmountInputs ==
  { Amount(1, "GBP", 2), Amount(MaxUint64, "GBP", 2), Amount(1, "USD", 2) }
NoBodies == {UnreadableBody, EmptyBody, MalformedBody}
AuthorizeBodies ==
  NoBodies \cup
  { JSONBody([RequestID |-> r, PaymentSource |-> [PAN |-> a.PAN], Amount |-> a.Amount]) :
      r \in RequestIDs, a \in HTTPAuthorizeInputs }
CaptureBodies ==
  NoBodies \cup
  { JSONBody([RequestID |-> r, AuthorizationID |-> a, Amount |-> m]) :
      r \in RequestIDs, a \in AuthorizationIDs, m \in HTTPAmountInputs }
RefundBodies == CaptureBodies
VoidBodies ==
  NoBodies \cup
  { JSONBody([RequestID |-> r, AuthorizationID |-> a]) :
      r \in RequestIDs, a \in AuthorizationIDs }

\* the handler fn has answered the request with this body: h is what it did
Answered(fn, body, h) ==
  [fn |-> fn, body |-> body.kind, resp |-> h.resp, called |-> h.called, err |-> h.err, t |-> h.t,
   wrote |-> h.transaction # transaction \/ h.payment_action # payment_action]

ServeAuthorize ==
  \E body \in AuthorizeBodies :
    LET h == HandleAuthorize(transaction, payment_action, body)
    IN /\ Len(h.transaction) <= MaxTransactions
       /\ transaction' = h.transaction
       /\ payment_action' = h.payment_action
       /\ result' = Answered(OpAuthorize, body, h)
       /\ asked' = IF Len(h.transaction) > Len(transaction)
                   THEN Append(asked, body.req.Amount)
                   ELSE asked
       /\ UNCHANGED << last, voidSucceeded, calls >>

ServeCapture ==
  \E body \in CaptureBodies :
    LET h == HandleCapture(transaction, payment_action, body)
    IN /\ transaction' = h.transaction
       /\ payment_action' = h.payment_action
       /\ result' = Answered(OpCapture, body, h)
       /\ UNCHANGED << last, voidSucceeded, calls, asked >>

ServeRefund ==
  \E body \in RefundBodies :
    LET h == HandleRefund(transaction, payment_action, body)
    IN /\ transaction' = h.transaction
       /\ payment_action' = h.payment_action
       /\ result' = Answered(OpRefund, body, h)
       /\ UNCHANGED << last, voidSucceeded, calls, asked >>

ServeVoid ==
  \E body \in VoidBodies :
    LET h == HandleVoid(transaction, payment_action, body)
    IN /\ transaction' = h.transaction
       /\ payment_action' = h.payment_action
       /\ result' = Answered(OpVoid, body, h)
       /\ UNCHANGED << last, voidSucceeded, calls, asked >>

NextHTTP == ServeAuthorize \/ ServeCapture \/ ServeRefund \/ ServeVoid

SpecHTTP == Init /\ [][NextHTTP]_vars

(***************************************************************************)
(* C28                                                                     *)
(***************************************************************************)
\* the response is an error response with this status and this code
IsError(resp, status, code) ==
  /\ resp.status = status
  /\ resp.body.code = code

C29_NoAuthorizationDateIs500 ==
  (/\ result.fn \in {OpAuthorize, OpVoid}
   /\ result.called
   /\ result.err = ErrNone
   /\ AuthorizationDate(result.t[1]) = Nil)
    => /\ IsError(result.resp, 500, CodeUnknownFailure)
       /\ result.resp.body.message = "invalid transaction with no authorization date"

(***************************************************************************)
(* C30                                                                     *)
(***************************************************************************)
\* the call r of an operation of type pat, with this authorizationID,
\* requestID and amount (Nil for a void), on the current store: if it is not
\* a replay and validation passed (verdict is ""), then r validated what
\* GetTransaction returns now, the tables are those CreatePaymentAction leaves
\* with the loaded transaction's ID, the requestID, the type and the amount,
\* and, the insert done, r returns what GetTransaction returns on those tables
ThreeStoreCalls(r, pat, authorizationID, requestID, amount, verdict) ==
  LET first == Stored(authorizationID)
      created == CreatePaymentAction(transaction, payment_action, first.t[1].ID,
                                     requestID, pat, amount)
      second == GetTransaction(transaction, created.payment_action, authorizationID)
  IN (/\ first.err = ErrNone
      /\ ~IsRequestIDIdempotent(first.t[1], pat, requestID)
      /\ verdict = "")
       => /\ r.loaded = first.t
          /\ r.transaction = transaction
          /\ r.payment_action = created.payment_action
          /\ created.err = ErrNone => (r.err = second.err /\ r.t = second.t)
          /\ created.err # ErrNone => (r.err = created.err /\ r.t = Nil)

MaxStoreCalls == 3

CallGetTransaction == "GetTransaction"
CallCreatePaymentAction == "CreatePaymentAction"
CallCreateTransaction == "CreateTransaction"

\* what the operation returns and leaves: error, transaction, tables, the
\* store calls made and whether the last of them failed with an error other
\* than ErrTransactionNotFound
Outcome(err, t, tt, pa, storeCalls, failed) ==
  [err |-> err, t |-> t, transaction |-> tt, payment_action |-> pa,
   storeCalls |-> storeCalls, failed |-> failed]

\* Service.Authorize over the failing store
AuthorizeFaulty(tt, pa, authorization, fault) ==
  LET created == CreateTransaction(tt, pa, authorization)
  IN IF Validate(authorization.PaymentSource.PAN) # LuhnOK
     THEN Outcome(ErrUnprocessable, Nil, tt, pa, << >>, FALSE)
     ELSE IF fault = 1
     THEN Outcome(ErrStore, Nil, tt, pa, << CallCreateTransaction >>, TRUE)
     ELSE IF created.err # ErrNone
     THEN Outcome(created.err, Nil, tt, pa, << CallCreateTransaction >>, TRUE)
     ELSE Outcome(ErrNone, created.t, created.transaction, created.payment_action,
                  << CallCreateTransaction >>, FALSE)

\* Service.Void, Capture and Refund that go on to the second GetTransaction
\* when CreatePaymentAction has failed, and return what it gives
ServeCallIgnoresCreateError(tt, pa, q, fault) ==
  LET got == GetTransaction(tt, pa, q.AuthorizationID)
      t == got.t[1]
      created == CreatePaymentAction(tt, pa, t.ID, q.RequestID, TypeOf(q.op), q.Amount)
      pa2 == IF fault = 2 THEN pa ELSE created.payment_action
      reloaded == GetTransaction(tt, pa2, q.AuthorizationID)
      three == << CallGetTransaction, CallCreatePaymentAction, CallGetTransaction >>
  IN IF fault = 1
     THEN Outcome(ErrStore, Nil, tt, pa, << CallGetTransaction >>, TRUE)
     ELSE IF got.err # ErrNone
     THEN Outcome(got.err, Nil, tt, pa, << CallGetTransaction >>, FALSE)
     ELSE IF IsRequestIDIdempotent(t, TypeOf(q.op), q.RequestID)
     THEN Outcome(ErrNone, got.t, tt, pa, << CallGetTransaction >>, FALSE)
     ELSE IF ValidateCall(t, q) # ""
     THEN Outcome(ErrUnprocessable, Nil, tt, pa, << CallGetTransaction >>, FALSE)
     ELSE IF fault = 3
     THEN Outcome(ErrStore, Nil, tt, pa2, three, TRUE)
     ELSE Outcome(reloaded.err, reloaded.t, tt, pa2, three, FALSE)

\* Service.Void, Capture and Refund over the failing store without the test
\* of IsRequestIDIdempotent on the transaction they loaded
ServeCallNoReplayTest(tt, pa, q, fault) ==
  LET got == GetTransaction(tt, pa, q.AuthorizationID)
      t == got.t[1]
      created == CreatePaymentAction(tt, pa, t.ID, q.RequestID, TypeOf(q.op), q.Amount)
      reloaded == GetTransaction(tt, created.payment_action, q.AuthorizationID)
      two == << CallGetTransaction, CallCreatePaymentAction >>
      three == << CallGetTransaction, CallCreatePaymentAction, CallGetTransaction >>
  IN IF fault = 1
     THEN Outcome(ErrStore, Nil, tt, pa, << CallGetTransaction >>, TRUE)
     ELSE IF got.err # ErrNone
     THEN Outcome(got.err, Nil, tt, pa, << CallGetTransaction >>, FALSE)
     ELSE IF ValidateCall(t, q) # ""
     THEN Outcome(ErrUnprocessable, Nil, tt, pa, << CallGetTransaction >>, FALSE)
     ELSE IF fault = 2
     THEN Outcome(ErrStore, Nil, tt, pa, two, TRUE)
     ELSE IF created.err # ErrNone
     THEN Outcome(created.err, Nil, tt, pa, two, TRUE)
     ELSE IF fault = 3
     THEN Outcome(ErrStore, Nil, tt, created.payment_action, three, TRUE)
     ELSE Outcome(reloaded.err, reloaded.t, tt, created.payment_action, three, FALSE)

\* Service.Void, Capture and Refund over the failing store; q is the request
\* with its operation, Amount is Nil for a Void
ServeCall(tt, pa, q, fault) ==
  LET got == GetTransaction(tt, pa, q.AuthorizationID)
      t == got.t[1]
      created == CreatePaymentAction(tt, pa, t.ID, q.RequestID, TypeOf(q.op), q.Amount)
      reloaded == GetTransaction(tt, created.payment_action, q.AuthorizationID)
      two == << CallGetTransaction, CallCreatePaymentAction >>
      three == << CallGetTransaction, CallCreatePaymentAction, CallGetTransaction >>
  IN IF fault = 1
     THEN Outcome(ErrStore, Nil, tt, pa, << CallGetTransaction >>, TRUE)
     ELSE IF got.err # ErrNone
     THEN Outcome(got.err, Nil, tt, pa, << CallGetTransaction >>, FALSE)
     ELSE IF IsRequestIDIdempotent(t, TypeOf(q.op), q.RequestID)
     THEN Outcome(ErrNone, got.t, tt, pa, << CallGetTransaction >>, FALSE)
     ELSE IF ValidateCall(t, q) # ""
     THEN Outcome(ErrUnprocessable, Nil, tt, pa, << CallGetTransaction >>, FALSE)
     ELSE IF fault = 2
     THEN Outcome(ErrStore, Nil, tt, pa, two, TRUE)
     ELSE IF created.err # ErrNone
     THEN Outcome(created.err, Nil, tt, pa, two, TRUE)
     ELSE IF fault = 3
     THEN Outcome(ErrStore, Nil, tt, created.payment_action, three, TRUE)
     ELSE Outcome(reloaded.err, reloaded.t, tt, created.payment_action, three, FALSE)

\* the requests made of the service over the failing store
FaultAuthorizeInputs ==
  { a \in AuthorizeInputs :
      /\ a.PAN \in {somePAN, StripSpaces(captureFailurePAN)}
      /\ a.Amount \in {Amount(2, "GBP", 2), Amount(MaxUint64, "GBP", 2)} }
FaultAmountInputs == { Amount(1, "GBP", 2), Amount(MaxUint64, "GBP", 2) }
FaultCalls ==
  { [op |-> OpVoid, RequestID |-> v.RequestID,
     AuthorizationID |-> v.AuthorizationID, Amount |-> Nil] : v \in Voids }
  \cup
  { [op |-> o, RequestID |-> c.RequestID,
     AuthorizationID |-> c.AuthorizationID, Amount |-> Ptr(c.Amount)] :
      o \in {OpCapture, OpRefund},
      c \in {d \in Captures : d.Amount \in FaultAmountInputs} }
Faults == 0 .. MaxStoreCalls

\* the operation has returned o for request q, store call number fault failing
Observed(op, q, fault, o) ==
  [fn |-> op, req |-> q, fault |-> fault, err |-> o.err,
   storeCalls |-> o.storeCalls, failed |-> o.failed,
   appended |-> Len(o.payment_action) > Len(payment_action)]

AuthorizeOverFaults ==
  \E authorization \in {a \in Authorizations :
                          [PAN |-> a.PaymentSource.PAN, Amount |-> a.Amount]
                            \in FaultAuthorizeInputs},
     fault \in {f \in Faults : f <= 1} :
    LET o == AuthorizeFaulty(transaction, payment_action, authorization, fault)
    IN /\ Len(o.transaction) <= MaxTransactions
       /\ transaction' = o.transaction
       /\ payment_action' = o.payment_action
       /\ result' = Observed(OpAuthorize, authorization, fault, o)
       /\ asked' = IF Len(o.transaction) > Len(transaction)
                   THEN Append(asked, authorization.Amount)
                   ELSE asked
       /\ UNCHANGED << last, voidSucceeded, calls >>

CallOverFaults ==
  \E q \in FaultCalls, fault \in Faults :
    LET o == ServeCall(transaction, payment_action, q, fault)
    IN /\ transaction' = o.transaction
       /\ payment_action' = o.payment_action
       /\ result' = Observed(q.op, q, fault, o)
       /\ UNCHANGED << last, voidSucceeded, calls, asked >>

NextFault == AuthorizeOverFaults \/ CallOverFaults

SpecFault == Init /\ [][NextFault]_vars

(***************************************************************************)
(* C31                                                                     *)
(***************************************************************************)
\* the last store call the operation made has failed, with an error other
\* than not-found
StoreCallFailed ==
  /\ result.fn \in {OpAuthorize, OpVoid, OpCapture, OpRefund}
  /\ result.failed

\* C31: when a store call made by Authorize, Capture, Refund or Void fails
\* with an error other than not-found, the operation makes no further store
\* call (the failed call is not made again and no later step runs) and
\* returns an error that is neither NotFound nor Unprocessable.
C31_StoreFailureEndsCall ==
  /\ StoreCallFailed =>
       result.err \notin {ErrNone, ErrTransactionNotFound, ErrUnprocessable}
  /\ (result.fn \in {OpAuthorize, OpVoid, OpCapture, OpRefund}
        /\ result.fault \in 1 .. Len(result.storeCalls)) =>
       /\ result.failed
       /\ Len(result.storeCalls) = result.fault

\* the CreatePaymentAction of a capture has failed after its GetTransaction
C31_Witness ==
  /\ StoreCallFailed
  /\ result.fn = OpCapture
  /\ result.fault = 2
  /\ result.storeCalls = << CallGetTransaction, CallCreatePaymentAction >>
  /\ result.err = ErrStore

(***************************************************************************)
(* C32                                                                     *)
(***************************************************************************)
\* the log of t holds an action of this type and requestID with status failed
RecordedFailed(t, pat, requestID) ==
  \E i \in Positions(t, pat, requestID) :
    t.PaymentActionSummary[i].Status = PaymentActionStatusFailed

\* the call r for a request on the transaction of authorizationID a returned
\* at the replay test: no error, the stored aggregate, nothing written
ReturnedAsReplay(r, a) ==
  /\ r.err = ErrNone
  /\ r.idempotent
  /\ r.t = Stored(a).t
  /\ r.transaction = transaction
  /\ r.payment_action = payment_action

\* C32: a Capture or Refund whose (type, requestID) is in the log with status
\* failed appends nothing, runs no validation and returns the current
\* aggregate without error.
C32_FailedActionIsReplayed ==
  /\ \A q \in Captures :
       (q.AuthorizationID \in Known
          /\ RecordedFailed(Txn(q.AuthorizationID), PaymentActionTypeCapture, q.RequestID))
         => ReturnedAsReplay(Capture(transaction, payment_action, q), q.AuthorizationID)
  /\ \A q \in Refunds :
       (q.AuthorizationID \in Known
          /\ RecordedFailed(Txn(q.AuthorizationID), PaymentActionTypeRefund, q.RequestID))
         => ReturnedAsReplay(Refund(transaction, payment_action, q), q.AuthorizationID)

\* a capture recorded as failed has just been replayed on a transaction that
\* was voided in between, where validation would have refused it
C32_Witness ==
  /\ last.op = OpCapture /\ last.idempotent /\ last.err = ErrNone
  /\ last.AuthorizationID \in Known
  /\ Voided(Txn(last.AuthorizationID))
  /\ \E q \in Captures :
       /\ q.AuthorizationID = last.AuthorizationID
       /\ RecordedFailed(Txn(q.AuthorizationID), PaymentActionTypeCapture, q.RequestID)
       /\ ValidateCapture(Txn(q.AuthorizationID), q.Amount) # ""

(***************************************************************************)
(* C33                                                                     *)
(***************************************************************************)
\* the log of t holds an action of type pat with this status
HasAction(t, pat, status) ==
  \E i \in DOMAIN t.PaymentActionSummary :
    /\ t.PaymentActionSummary[i].Type = pat
    /\ t.PaymentActionSummary[i].Status = status

\* the captures (the refunds) in the log of t have all failed, and there is one
OnlyFailed(t, pat) ==
  /\ HasAction(t, pat, PaymentActionStatusFailed)
  /\ ~HasAction(t, pat, PaymentActionStatusSuccess)

\* C33: a capture action recorded with status failed does not make Captured()
\* true and does not block a later Void; a refund action recorded with status
\* failed does not make Refunded() true and does not block a later Capture.
C33_OnlySuccessSetsFlags ==
  \A a \in Known :
    /\ OnlyFailed(Txn(a), PaymentActionTypeCapture) =>
         /\ ~Captured(Txn(a))
         /\ ~Voided(Txn(a)) =>
              /\ ValidateVoid(Txn(a)) = ""
              /\ \A v \in Voids :
                   v.AuthorizationID = a =>
                     Void(transaction, payment_action, v).err = ErrNone
    /\ OnlyFailed(Txn(a), PaymentActionTypeRefund) =>
         /\ ~Refunded(Txn(a))
         /\ \A q \in Captures :
              q.AuthorizationID = a =>
                ValidateCapture(Txn(a), q.Amount) # "transaction is already refunded"
         /\ ~Voided(Txn(a)) =>
              \E q \in Captures :
                /\ q.AuthorizationID = a
                /\ ~IsRequestIDIdempotent(Txn(a), PaymentActionTypeCapture, q.RequestID)
                /\ Capture(transaction, payment_action, q).err = ErrNone

\* a Void has just been appended to a transaction whose log holds a failed
\* capture
C33_Witness ==
  /\ last.op = OpVoid /\ last.inserted /\ last.err = ErrNone
  /\ last.AuthorizationID \in Known
  /\ OnlyFailed(Txn(last.AuthorizationID), PaymentActionTypeCapture)
  /\ Voided(Txn(last.AuthorizationID))

(***************************************************************************)
(* Several transactions in the store.  The operations run one at a time,   *)
(* as under Spec, with one card and few amounts, and Authorize may create  *)
(* a second transaction.                                                   *)
(***************************************************************************)
\* at most MaxTransactionsMany rows are inserted into table transaction
MaxTransactionsMany == 2

ManyAuthorizations ==
  { a \in Authorizations :
      a.PaymentSource.PAN = somePAN /\ a.Amount = Amount(2, "GBP", 2) }
ManyCaptures == { c \in Captures : c.Amount = Amount(1, "GBP", 2) }

AuthorizeMany ==
  \E authorization \in ManyAuthorizations :
    LET r == Authorize(transaction, payment_action, authorization)
    IN /\ Len(r.transaction) <= MaxTransactionsMany
       /\ transaction' = r.transaction
       /\ payment_action' = r.payment_action
       /\ last' = Returned(OpAuthorize,
                           IF r.err = ErrNone THEN r.t[1].AuthorizationID ELSE 0, r)
       /\ asked' = IF Len(r.transaction) > Len(transaction)
                   THEN Append(asked, authorization.Amount)
                   ELSE asked
       /\ UNCHANGED << voidSucceeded, calls, result >>

VoidMany ==
  \E void \in Voids :
    LET r == Void(transaction, payment_action, void)
    IN /\ transaction' = r.transaction
       /\ payment_action' = r.payment_action
       /\ last' = Returned(OpVoid, void.AuthorizationID, r)
       /\ voidSucceeded' = IF r.err = ErrNone
                           THEN voidSucceeded \cup {void.AuthorizationID}
                           ELSE voidSucceeded
       /\ UNCHANGED << calls, asked, result >>

CaptureMany ==
  \E capture \in ManyCaptures :
    LET r == Capture(transaction, payment_action, capture)
    IN /\ transaction' = r.transaction
       /\ payment_action' = r.payment_action
       /\ last' = Returned(OpCapture, capture.AuthorizationID, r)
       /\ UNCHANGED << voidSucceeded, calls, asked, result >>

RefundMany ==
  \E refund \in ManyCaptures :
    LET r == Refund(transaction, payment_action, refund)
    IN /\ transaction' = r.transaction
       /\ payment_action' = r.payment_action
       /\ last' = Returned(OpRefund, refund.AuthorizationID, r)
       /\ UNCHANGED << voidSucceeded, calls, asked, result >>

NextMany == AuthorizeMany \/ VoidMany \/ CaptureMany \/ RefundMany

SpecMany == Init /\ [][NextMany]_vars

(***************************************************************************)
(* C34                                                                     *)
(***************************************************************************)
\* the positions of the authorization actions with this requestID in the log
\* the store returns for authorizationID a
AuthorizationsWith(a, requestID) ==
  Positions(Txn(a), PaymentActionTypeAuthorization, requestID)

\* C34: every transaction for which Authorize returned without error (a row of
\* table transaction: Authorize creates it and returns its authorizationID)
\* can be loaded by its authorizationID, so that Capture, Refund and Void on
\* it never return NotFound, and its log holds exactly one action of type
\* authorization, with the requestID of the Authorize call, also when that
\* requestID was already used by an action of another transaction.
C34_AuthorizedIsLoadable ==
  \A i \in DOMAIN transaction :
    LET a == transaction[i].authorization_id
    IN /\ Stored(a).err = ErrNone
       /\ Cardinality(AuthorizationsOf(Txn(a))) = 1
       /\ Cardinality(AuthorizationsWith(a, transaction[i].request_id)) = 1
       /\ \A v \in Voids :
            v.AuthorizationID = a =>
              Void(transaction, payment_action, v).err # ErrTransactionNotFound
       /\ \A q \in ManyCaptures :
            q.AuthorizationID = a =>
              /\ Capture(transaction, payment_action, q).err # ErrTransactionNotFound
              /\ Refund(transaction, payment_action, q).err # ErrTransactionNotFound

(***************************************************************************)
(* C35                                                                     *)
(***************************************************************************)
\* in log, a successful capture action stands before position i
CaptureBefore(log, i) == \E j \in 1 .. (i - 1) : CaptureSuccess(log[j])

\* C35: with calls run one at a time, whenever the log of a transaction holds
\* a successful refund action, a successful capture action was appended to
\* the log before it, for every refund amount including 0.
C35_RefundAfterCapture ==
  \A a \in Known :
    LET log == Txn(a).PaymentActionSummary
    IN \A i \in DOMAIN log : RefundSuccess(log[i]) => CaptureBefore(log, i)

(***************************************************************************)
(* C36                                                                     *)
(***************************************************************************)
\* the authorization action of t has status failed
AuthorizationFailed(t) ==
  HasAction(t, PaymentActionTypeAuthorization, PaymentActionStatusFailed)

\* the three totals of t are 0
TotalsZero(t) ==
  /\ t.AuthorizedAmount.MinorUnits = 0
  /\ t.CapturedAmount.MinorUnits = 0
  /\ t.RefundedAmount.MinorUnits = 0

\* C36: for a transaction whose authorization action has status failed,
\* authorizedAmount, capturedAmount and refundedAmount are 0 after every
\* sequence of Capture, Refund and Void calls run one at a time.
C36_FailedAuthorizationTotalsZero ==
  \A a \in Known : AuthorizationFailed(Txn(a)) => TotalsZero(Txn(a))

\* a refund has just been appended to a transaction whose authorization
\* failed and whose log holds a capture as well
C36_Witness ==
  /\ last.op = OpRefund /\ last.inserted /\ last.err = ErrNone
  /\ last.AuthorizationID \in Known
  /\ AuthorizationFailed(Txn(last.AuthorizationID))
  /\ Captured(Txn(last.AuthorizationID))
  /\ Refunded(Txn(last.AuthorizationID))

(***************************************************************************)
(* C37                                                                     *)
(***************************************************************************)
\* the last call was a Capture, Refund or Void that appended its action and
\* returned the error of its second GetTransaction
AppendedThenReloadFailed ==
  /\ result.fn \in {OpVoid, OpCapture, OpRefund}
  /\ result.appended
  /\ result.failed
  /\ result.storeCalls =
       << CallGetTransaction, CallCreatePaymentAction, CallGetTransaction >>
  /\ result.err # ErrNone

\* the same request made again of the store as it is now, no store call failing
Retry == ServeCall(transaction, payment_action, result.req, 0)

\* the retry o returned without error an aggregate holding the action of
\* request q exactly once and left the table of payment actions as it was
RetriedOnce(o, q) ==
  /\ o.err = ErrNone
  /\ o.t # Nil
  /\ Cardinality(Positions(o.t[1], TypeOf(q.op), q.RequestID)) = 1
  /\ o.payment_action = payment_action
  /\ o.transaction = transaction

\* C37: if a Capture, Refund or Void appended its action but the reload that
\* follows failed, so that the call returned an error, a retry with the same
\* requestID returns without error an aggregate whose log holds that action
\* exactly once, and appends no second action.
C37_RetryAfterFailedReload ==
  AppendedThenReloadFailed => RetriedOnce(Retry, result.req)

\* a void was appended, its reload failed, and the retry is answered
C37_Witness ==
  /\ AppendedThenReloadFailed
  /\ result.fn = OpVoid
  /\ result.fault = 3
  /\ Retry.err = ErrNone
  /\ Retry.storeCalls = << CallGetTransaction >>

(***************************************************************************)
(* healthcheck.CheckAll and healthcheck.Handler: the caller's goroutine,   *)
(* the collector goroutine and one goroutine for each checker.  results    *)
(* and done are unbuffered channels: a send and its receive are one step   *)
(* of the two goroutines.  Every action is one step of one goroutine       *)
(* between two operations on a channel, the WaitGroup or the context.      *)
(***************************************************************************)
\* CheckAll is called with 0 .. MaxCheckers checkers
MaxCheckers == 3
CheckerIDs == 1 .. MaxCheckers

StatusOK == 200
StatusServiceUnavailable == 503

\* Response{Healthy: true} and the state of CheckAll when it is called with
\* n checkers: no goroutine started, results and done open, ctx not done
CheckAllCalled(n) ==
  [fn |-> "CheckAll", checkers |-> n,
   main |-> "start", collector |-> "none",
   checker |-> [i \in CheckerIDs |-> "none"],
   verdict |-> [i \in CheckerIDs |-> "none"],
   launched |-> 0, wg |-> 0, got |-> Nil,
   resp |-> [Healthy |-> TRUE, Services |-> << >>],
   cancelled |-> FALSE, callerDone |-> FALSE, closed |-> FALSE,
   status |-> 0]

InitHealth ==
  /\ transaction = << >>
  /\ payment_action = << >>
  /\ last = [op |-> OpNone, AuthorizationID |-> 0, err |-> ErrNone,
             idempotent |-> FALSE, inserted |-> FALSE]
  /\ voidSucceeded = {}
  /\ calls = [p \in Procs |-> Idle]
  /\ asked = << >>
  /\ \E n \in 0 .. MaxCheckers : result = CheckAllCalled(n)

\* ctx.Done() of the context CheckAll derives with context.WithCancel is
\* closed by its cancel and by the cancellation of the caller's context
CtxDone(r) == r.cancelled \/ r.callerDone

\* CheckAll returns at once without checkers, and otherwise derives ctx and
\* starts the collector goroutine
StartCheckAll ==
  /\ result.fn = "CheckAll" /\ result.main = "start"
  /\ result' = IF result.checkers = 0
               THEN [result EXCEPT !.main = "returned"]
               ELSE [result EXCEPT !.main = "launch", !.collector = "range"]
  /\ UNCHANGED << transaction, payment_action, last, voidSucceeded, calls, asked >>

\* one turn of `for _, v := range checkers`: wg.Add(1) and the go statement
LaunchChecker ==
  /\ result.fn = "CheckAll" /\ result.main = "launch"
  /\ LET i == result.launched + 1
     IN result' = [result EXCEPT
                     !.launched = i,
                     !.wg = @ + 1,
                     !.checker[i] = "health",
                     !.main = IF i = result.checkers THEN "wait" ELSE "launch"]
  /\ UNCHANGED << transaction, payment_action, last, voidSucceeded, calls, asked >>

\* checker.Health(ctx) returns a Service, healthy or not: the operand of the
\* send is evaluated before the select chooses
HealthReturns ==
  \E i \in CheckerIDs, v \in {"healthy", "unhealthy"} :
    /\ result.fn = "CheckAll" /\ result.checker[i] = "health"
    /\ result' = [result EXCEPT !.verdict[i] = v, !.checker[i] = "select"]
    /\ UNCHANGED << transaction, payment_action, last, voidSucceeded, calls, asked >>

\* case results <- ... of a checker with the receive of the collector's
\* range; the checker's goroutine ends with wg.Done()
SendResult ==
  \E i \in CheckerIDs :
    /\ result.fn = "CheckAll" /\ result.checker[i] = "select"
    /\ result.collector = "range" /\ ~result.closed
    /\ result' = [result EXCEPT !.checker[i] = "exited", !.wg = @ - 1,
                                !.collector = "got", !.got = Ptr(i)]
    /\ UNCHANGED << transaction, payment_action, last, voidSucceeded, calls, asked >>

\* case <-ctx.Done() of a checker; its goroutine ends with wg.Done()
CheckerCancelled ==
  \E i \in CheckerIDs :
    /\ result.fn = "CheckAll" /\ result.checker[i] = "select"
    /\ CtxDone(result)
    /\ result' = [result EXCEPT !.checker[i] = "exited", !.wg = @ - 1]
    /\ UNCHANGED << transaction, payment_action, last, voidSucceeded, calls, asked >>

\* the body of the collector's loop that breaks without cancel()
CollectedNoCancel(r, i) ==
  LET healthy == r.verdict[i] = "healthy"
  IN [r EXCEPT !.resp = [Healthy |-> r.resp.Healthy /\ healthy,
                         Services |-> Append(r.resp.Services, i)],
               !.got = Nil,
               !.collector = IF healthy THEN "range" ELSE "sendDone"]

\* the body of the collector's loop for the Service of checker i that it
\* received: the loop keeps only the conjunction of the verdicts and leaves
\* with cancel() at the first unhealthy one
Collected(r, i) ==
  LET healthy == r.verdict[i] = "healthy"
  IN [r EXCEPT !.resp = [Healthy |-> r.resp.Healthy /\ healthy,
                         Services |-> Append(r.resp.Services, i)],
               !.got = Nil,
               !.cancelled = r.cancelled \/ ~healthy,
               !.collector = IF healthy THEN "range" ELSE "sendDone"]

Collect ==
  /\ result.fn = "CheckAll" /\ result.collector = "got"
  /\ result' = Collected(result, result.got[1])
  /\ UNCHANGED << transaction, payment_action, last, voidSucceeded, calls, asked >>

\* the collector's range ends when results is closed
RangeEnds ==
  /\ result.fn = "CheckAll" /\ result.collector = "range" /\ result.closed
  /\ result' = [result EXCEPT !.collector = "sendDone"]
  /\ UNCHANGED << transaction, payment_action, last, voidSucceeded, calls, asked >>

\* wg.Wait() returns when every checker goroutine has called wg.Done()
WaitReturns ==
  /\ result.fn = "CheckAll" /\ result.main = "wait" /\ result.wg = 0
  /\ result' = [result EXCEPT !.main = "close"]
  /\ UNCHANGED << transaction, payment_action, last, voidSucceeded, calls, asked >>

\* close(results)
CloseResults ==
  /\ result.fn = "CheckAll" /\ result.main = "close"
  /\ result' = [result EXCEPT !.closed = TRUE, !.main = "recvDone"]
  /\ UNCHANGED << transaction, payment_action, last, voidSucceeded, calls, asked >>

\* done <- struct{}{} of the collector with <-done of CheckAll, which then
\* returns resp after its deferred cancel()
DoneReceived ==
  /\ result.fn = "CheckAll"
  /\ result.main = "recvDone" /\ result.collector = "sendDone"
  /\ result' = [result EXCEPT !.main = "returned", !.collector = "exited",
                              !.cancelled = TRUE]
  /\ UNCHANGED << transaction, payment_action, last, voidSucceeded, calls, asked >>

\* Handler: 503 when the Response CheckAll returned is not healthy, and the
\* 200 of the first write otherwise
HandlerResponds ==
  /\ result.fn = "CheckAll" /\ result.main = "returned" /\ result.status = 0
  /\ result' = [result EXCEPT !.status = IF result.resp.Healthy
                                         THEN StatusOK
                                         ELSE StatusServiceUnavailable]
  /\ UNCHANGED << transaction, payment_action, last, voidSucceeded, calls, asked >>

\* the context of the request is cancelled: the client has gone away
CancelCaller ==
  /\ result.fn = "CheckAll" /\ ~result.callerDone /\ result.status = 0
  /\ result' = [result EXCEPT !.callerDone = TRUE]
  /\ UNCHANGED << transaction, payment_action, last, voidSucceeded, calls, asked >>

\* the steps of the goroutines of CheckAll and of the handler
HealthStep ==
  \/ StartCheckAll \/ LaunchChecker \/ HealthReturns \/ SendResult
  \/ CheckerCancelled \/ Collect \/ RangeEnds \/ WaitReturns
  \/ CloseResults \/ DoneReceived \/ HandlerResponds

NextHealth == HealthStep \/ CancelCaller

SpecHealth == InitHealth /\ [][NextHealth]_vars

\* the runtime runs a goroutine that can take a step, and every Health call
\* returns
SpecHealthFair == SpecHealth /\ WF_vars(HealthStep)

(***************************************************************************)
(* C38                                                                     *)
(***************************************************************************)
\* CheckAll has returned its Response
CheckAllReturned == result.fn = "CheckAll" /\ result.main = "returned"

\* the Health call of some checker returned an unhealthy Service
SomeUnhealthy == \E i \in CheckerIDs : result.verdict[i] = "unhealthy"

\* the Response is unhealthy and the handler, once it has answered, said 503
AnsweredUnhealthy ==
  /\ ~result.resp.Healthy
  /\ result.status \in {0, StatusServiceUnavailable}

\* C38: CheckAll returns Healthy = false whenever at least one of
\* the checkers reported an unhealthy service, in every interleaving and for
\* every moment at which the caller's context is cancelled, and Handler then
\* responds 503.
C38_UnhealthyIsReported ==
  (CheckAllReturned /\ SomeUnhealthy) => AnsweredUnhealthy

(***************************************************************************)
(* C39                                                                     *)
(***************************************************************************)
\* CheckAll has returned and no goroutine it started is left: the collector
\* and every checker goroutine have run to their end
NoGoroutineLeft ==
  /\ result.fn = "CheckAll" /\ result.main = "returned"
  /\ result.collector \in {"none", "exited"}
  /\ result.launched = result.checkers
  /\ \A i \in CheckerIDs : result.checker[i] \in {"none", "exited"}

\* C39: provided every checker's Health call returns, CheckAll always
\* returns, for 0 to MaxCheckers checkers, every mix of healthy and
\* unhealthy results and every interleaving, and no checker goroutine and no
\* collector goroutine stays blocked on the results or done channel.
C39_CheckAllReturns == <>NoGoroutineLeft

\* CheckAll has returned after the collector left its loop at an unhealthy
\* Service while another checker, its Service ready, had not sent it
C39_Witness ==
  /\ NoGoroutineLeft
  /\ result.checkers = MaxCheckers
  /\ Len(result.resp.Services) = 1
  /\ ~result.callerDone
  /\ \A i \in CheckerIDs : result.verdict[i] # "none"

(***************************************************************************)
(* app.Service.run: the goroutine of run with its deferred calls, one      *)
(* goroutine for each launched listener (Service.launch) and the Close     *)
(* calls of Service.shutdown.  errs is a channel with a buffer of one.     *)
(* Serve returning, a signal and the cancellation of the context handed    *)
(* back by setup are events of the environment.                            *)
(***************************************************************************)
\* setup returns 0 .. MaxListeners listeners
MaxListeners == 2
\* the health listener of earlyInit, and the listeners of setup after it
HealthListener == 1
ListenerIDs == 1 .. (MaxListeners + 1)
SetupListeners(r) == 2 .. (r.listeners + 1)
\* cap(errs)
ErrsCap == 1

DeferHooks == "onShutdown"
DeferCancel == "cancel"
DeferShutdownEarly == "shutdown(earlyListeners)"
DeferShutdownSetup == "shutdown(listeners)"

\* a defer statement in the other order: the call runs after those deferred
\* before it
DeferFIFO(defers, call) == Append(defers, call)

\* a defer statement: the deferred calls run last in, first out
Defer(defers, call) == << call >> \o defers

\* run is called; setup has not run, so no OnShutdown hook is registered
RunCalled ==
  [fn |-> "run", main |-> "start", defers |-> << >>,
   listener |-> [l \in ListenerIDs |-> "none"],
   close |-> [l \in ListenerIDs |-> "none"],
   listeners |-> 0, launched |-> 0, errs |-> << >>,
   hooks |-> 0, closing |-> {}, trace |-> << >>,
   signalled |-> FALSE, ctxDone |-> FALSE]

InitRun ==
  /\ transaction = << >>
  /\ payment_action = << >>
  /\ last = [op |-> OpNone, AuthorizationID |-> 0, err |-> ErrNone,
             idempotent |-> FALSE, inserted |-> FALSE]
  /\ voidSucceeded = {}
  /\ calls = [p \in Procs |-> Idle]
  /\ asked = << >>
  /\ result = RunCalled

\* run defers the OnShutdown hooks, sets GOMAXPROCS (returning when that
\* fails), derives ctx and defers its cancel
StartRun ==
  \E ok \in BOOLEAN :
    /\ result.fn = "run" /\ result.main = "start"
    /\ result' =
         IF ok
         THEN [result EXCEPT
                 !.defers = Defer(Defer(result.defers, DeferHooks), DeferCancel),
                 !.main = "earlyInit"]
         ELSE [result EXCEPT !.defers = Defer(result.defers, DeferHooks),
                             !.main = "return"]
    /\ UNCHANGED << transaction, payment_action, last, voidSucceeded, calls, asked >>

\* earlyInit launches the health listener; run defers its shutdown
EarlyInit ==
  /\ result.fn = "run" /\ result.main = "earlyInit"
  /\ result' = [result EXCEPT
                  !.listener[HealthListener] = "serving",
                  !.defers = Defer(result.defers, DeferShutdownEarly),
                  !.main = "setup"]
  /\ UNCHANGED << transaction, payment_action, last, voidSucceeded, calls, asked >>

\* setupListeners receives what setup returned: setup registers its
\* OnShutdown hook, and returns an error and no listener, or n listeners;
\* run returns on an error and on no listener, after deferring the shutdown
\* of the listeners when there is no error
SetupReturns ==
  \E n \in 0 .. MaxListeners, failed \in BOOLEAN :
    /\ result.fn = "run" /\ result.main = "setup"
    /\ failed => n = 0
    /\ result' =
         IF failed
         THEN [result EXCEPT !.hooks = 1, !.main = "return"]
         ELSE [result EXCEPT
                 !.hooks = 1,
                 !.listeners = n,
                 !.defers = Defer(result.defers, DeferShutdownSetup),
                 !.main = IF n = 0 THEN "return" ELSE "launch"]
    /\ UNCHANGED << transaction, payment_action, last, voidSucceeded, calls, asked >>

\* one turn of `for _, l := range listeners { s.launch(ctx, l, errs) }`
LaunchListener ==
  /\ result.fn = "run" /\ result.main = "launch"
  /\ LET k == result.launched + 1
     IN result' = [result EXCEPT
                     !.launched = k,
                     !.listener[k + 1] = "serving",
                     !.main = IF k = result.listeners THEN "ready" ELSE "launch"]
  /\ UNCHANGED << transaction, payment_action, last, voidSucceeded, calls, asked >>

\* the readiness and liveness handlers are stored, the postHealth hook runs,
\* and run calls wait
Ready ==
  /\ result.fn = "run" /\ result.main = "ready"
  /\ result' = [result EXCEPT !.main = "wait"]
  /\ UNCHANGED << transaction, payment_action, last, voidSucceeded, calls, asked >>

\* listener.Serve(ctx) returns
ServeReturns ==
  \E l \in ListenerIDs :
    /\ result.fn = "run" /\ result.listener[l] = "serving"
    /\ result' = [result EXCEPT !.listener[l] = "reporting"]
    /\ UNCHANGED << transaction, payment_action, last, voidSucceeded, calls, asked >>

\* case errs <- err of the listener's goroutine: the buffer has room
ReportSent ==
  \E l \in ListenerIDs :
    /\ result.fn = "run" /\ result.listener[l] = "reporting"
    /\ Len(result.errs) < ErrsCap
    /\ result' = [result EXCEPT !.listener[l] = "exited",
                                !.errs = Append(@, l)]
    /\ UNCHANGED << transaction, payment_action, last, voidSucceeded, calls, asked >>

\* the default case of the listener's goroutine: the buffer is full
ReportDropped ==
  \E l \in ListenerIDs :
    /\ result.fn = "run" /\ result.listener[l] = "reporting"
    /\ Len(result.errs) >= ErrsCap
    /\ result' = [result EXCEPT !.listener[l] = "exited"]
    /\ UNCHANGED << transaction, payment_action, last, voidSucceeded, calls, asked >>

\* a SIGINT or SIGTERM is delivered
Signal ==
  /\ result.fn = "run" /\ ~result.signalled /\ result.main # "returned"
  /\ result' = [result EXCEPT !.signalled = TRUE]
  /\ UNCHANGED << transaction, payment_action, last, voidSucceeded, calls, asked >>

\* the context setup handed back is cancelled
ContextCancelled ==
  /\ result.fn = "run" /\ ~result.ctxDone /\ result.main # "returned"
  /\ result.main \notin {"start", "earlyInit", "setup"}
  /\ result' = [result EXCEPT !.ctxDone = TRUE]
  /\ UNCHANGED << transaction, payment_action, last, voidSucceeded, calls, asked >>

\* wait: case err := <-errs
WaitErr ==
  /\ result.fn = "run" /\ result.main = "wait"
  /\ result.errs # << >>
  /\ result' = [result EXCEPT !.errs = Tail(@), !.main = "return"]
  /\ UNCHANGED << transaction, payment_action, last, voidSucceeded, calls, asked >>

\* wait: case s := <-sigs
WaitSignal ==
  /\ result.fn = "run" /\ result.main = "wait"
  /\ result.signalled
  /\ result' = [result EXCEPT !.main = "return"]
  /\ UNCHANGED << transaction, payment_action, last, voidSucceeded, calls, asked >>

\* wait: case <-ctx.Done(), which returns an error of errs when there is one
WaitContext ==
  /\ result.fn = "run" /\ result.main = "wait"
  /\ result.ctxDone
  /\ result' = [result EXCEPT
                  !.errs = IF @ = << >> THEN @ ELSE Tail(@),
                  !.main = "return"]
  /\ UNCHANGED << transaction, payment_action, last, voidSucceeded, calls, asked >>

\* run returns: the next deferred call starts, or run has returned
RunDeferred ==
  /\ result.fn = "run" /\ result.main = "return"
  /\ result' =
       IF result.defers = << >>
       THEN [result EXCEPT !.main = "returned"]
       ELSE LET call == Head(result.defers)
                rest == Tail(result.defers)
            IN CASE call = DeferShutdownSetup ->
                      [result EXCEPT !.defers = rest, !.main = "shutdown",
                                     !.closing = SetupListeners(result)]
                 [] call = DeferShutdownEarly ->
                      [result EXCEPT !.defers = rest, !.main = "shutdown",
                                     !.closing = {HealthListener}]
                 [] call = DeferCancel ->
                      [result EXCEPT !.defers = rest, !.ctxDone = TRUE]
                 [] call = DeferHooks ->
                      [result EXCEPT !.defers = rest, !.main = "hooks"]
  /\ UNCHANGED << transaction, payment_action, last, voidSucceeded, calls, asked >>

\* shutdown: the goroutine of listener l calls l.Close(ctx)
CloseCalled ==
  \E l \in ListenerIDs :
    /\ result.fn = "run" /\ result.main = "shutdown"
    /\ l \in result.closing /\ result.close[l] = "none"
    /\ result' = [result EXCEPT !.close[l] = "called",
                                !.trace = Append(@, << "Close", l >>)]
    /\ UNCHANGED << transaction, payment_action, last, voidSucceeded, calls, asked >>

\* l.Close(ctx) returns and the goroutine ends with wg.Done()
CloseReturns ==
  \E l \in ListenerIDs :
    /\ result.fn = "run" /\ result.close[l] = "called"
    /\ result' = [result EXCEPT !.close[l] = "returned"]
    /\ UNCHANGED << transaction, payment_action, last, voidSucceeded, calls, asked >>

\* shutdown: wg.Wait() returns when every Close has returned
ShutdownReturns ==
  /\ result.fn = "run" /\ result.main = "shutdown"
  /\ \A l \in result.closing : result.close[l] = "returned"
  /\ result' = [result EXCEPT !.main = "return", !.closing = {}]
  /\ UNCHANGED << transaction, payment_action, last, voidSucceeded, calls, asked >>

\* `for _, fn := range s.onShutdown { fn() }`
RunHooks ==
  /\ result.fn = "run" /\ result.main = "hooks"
  /\ result' = IF result.hooks = 0
               THEN [result EXCEPT !.main = "return"]
               ELSE [result EXCEPT !.hooks = @ - 1,
                                   !.trace = Append(@, << "OnShutdown", 0 >>)]
  /\ UNCHANGED << transaction, payment_action, last, voidSucceeded, calls, asked >>

\* the steps of the goroutines of run, with the returns of the calls they make
RunStep ==
  \/ StartRun \/ EarlyInit \/ SetupReturns \/ LaunchListener \/ Ready
  \/ ReportSent \/ ReportDropped \/ WaitErr \/ WaitSignal \/ WaitContext
  \/ RunDeferred \/ CloseCalled \/ CloseReturns \/ ShutdownReturns \/ RunHooks

NextRun == RunStep \/ ServeReturns \/ Signal \/ ContextCancelled

SpecRun == InitRun /\ [][NextRun]_vars

\* the runtime runs a goroutine that can take a step, and setup, Close and
\* the hooks return
SpecRunFair == SpecRun /\ WF_vars(RunStep)

(***************************************************************************)
(* C40                                                                     *)
(***************************************************************************)
\* the Serve of a launched listener has returned
ServeHasReturned(l) ==
  result.fn = "run" /\ result.listener[l] \in {"reporting", "exited"}

RunReturned == result.fn = "run" /\ result.main = "returned"

\* the positions of the trace at which Close was called on l
ClosedAt(l) == {i \in DOMAIN result.trace : result.trace[i] = << "Close", l >>}
\* the positions of the trace at which an OnShutdown hook ran
HookAt == {i \in DOMAIN result.trace : result.trace[i][1] = "OnShutdown"}

\* Close is called on the setup listeners first, then on the health
\* listener, and the hooks run last; when run has returned Close was called
\* once on every listener launched and every registered hook has run
ShutdownInOrder ==
  /\ \A l \in SetupListeners(result) :
       \A i \in ClosedAt(l), j \in ClosedAt(HealthListener) \cup HookAt : i < j
  /\ \A i \in ClosedAt(HealthListener), j \in HookAt : i < j
  /\ RunReturned =>
       /\ \A l \in ListenerIDs :
            Cardinality(ClosedAt(l)) = IF result.listener[l] # "none" THEN 1 ELSE 0
       /\ result.hooks = 0

====
